---- MODULE Spec2Model ----
(***************************************************************************)
(* Model of the generic parametric pricing engine of parametrix            *)
(* (backend-python/src/pricing_engine.py, backend-python/src/              *)
(* trigger_rules.py).                                                      *)
(*                                                                         *)
(* Python dicts are functions whose DOMAIN is the set of keys present.     *)
(* Python floats are modelled by a miniature binary floating-point format  *)
(* (MantBits significant bits, smallest subnormal 2^-FracBits, round to    *)
(* nearest, ties to even, overflow to +inf); a float is carried as the     *)
(* integer number of 2^-FracBits units it equals.                          *)
(***************************************************************************)
EXTENDS Integers, Sequences, FiniteSets, TLC

\* ------------------------------------------------------------------ bounds
MaxUnits == 2
MaxEvents == 2
\* the most vertices of a polygon handed to _point_in_polygon
MaxVertices == 4
\* the miniature float format standing for IEEE-754 binary64
FracBits == 6
MantBits == 5
\* terms of the power series used for exp
ExpTerms == 12

\* ------------------------------------------------------- Python values
\* Non-finite and non-numeric values, carried as integers outside the range
\* of every finite number of the model.
PosInf == 2^28
NegInf == 0 - PosInf
NaN == PosInf + 1
NonNumber == PosInf + 2

One == 2^FracBits
\* largest finite float: (2^MantBits - 1) * 4.0.  As in binary64,
\* 1/MaxFinite is still a nonzero subnormal and 1.0 + MaxFinite rounds back
\* to MaxFinite.
MaxFinite == (2^MantBits - 1) * One * 4

Abs(x) == IF x < 0 THEN 0 - x ELSE x
Min2(a, b) == IF a < b THEN a ELSE b
Max2(a, b) == IF a > b THEN a ELSE b

\* number of bits of a natural number
RECURSIVE BitLen(_)
BitLen(q) == IF q = 0 THEN 0 ELSE 1 + BitLen(q \div 2)

\* num/den rounded to the nearest integer, ties to even (num >= 0, den > 0)
RoundInt(num, den) ==
    LET q == num \div den
        r == num % den
    IN  IF 2 * r < den THEN q
        ELSE IF 2 * r > den THEN q + 1
        ELSE IF q % 2 = 0 THEN q ELSE q + 1

\* a/b rounded to nearest, ties to even, symmetric in the sign of a (b > 0)
RoundDiv(a, b) == IF a < 0 THEN 0 - RoundInt(0 - a, b) ELSE RoundInt(a, b)

\* num/den units (den > 0) rounded to the float format: MantBits significant
\* bits, ties to even, an infinity beyond MaxFinite
RoundFloat(num, den) ==
    LET q == Abs(num) \div den
        k == BitLen(q) - MantBits
        r == IF k <= 0 THEN RoundInt(Abs(num), den)
             ELSE RoundInt(Abs(num), den * 2^k) * 2^k
    IN  IF r > MaxFinite THEN (IF num < 0 THEN NegInf ELSE PosInf)
        ELSE IF num < 0 THEN 0 - r ELSE r

IsFinite(x) == x > NegInf /\ x < PosInf
IsFloat(x) == IsFinite(x) /\ RoundFloat(x, 1) = x

\* float product a * b
FMul(a, b) ==
    IF a = NaN \/ b = NaN THEN NaN
    ELSE IF ~IsFinite(a) \/ ~IsFinite(b)
    THEN (IF a = 0 \/ b = 0 THEN NaN
          ELSE IF (a < 0) = (b < 0) THEN PosInf ELSE NegInf)
    ELSE RoundFloat(a * b, One)

\* n / t for a count n >= 0 and a finite float t # 0 (true division)
FDivCount(n, t) ==
    IF t < 0 THEN 0 - RoundFloat(n * One * One, 0 - t)
    ELSE RoundFloat(n * One * One, t)

\* float sum 1.0 + a
FAddOne(a) == IF IsFinite(a) THEN RoundFloat(One + a, 1) ELSE a

\* float difference 1.0 - y
FOneMinus(y) ==
    IF y = NaN THEN NaN
    ELSE IF y = PosInf THEN NegInf
    ELSE IF y = NegInf THEN PosInf
    ELSE RoundFloat(One - y, 1)

\* ------------------------------------------------------------- math.exp
\* exp(-x) is evaluated in fixed point with ExpScale units per 1.0 and then
\* rounded to the float format: exp(-x) = exp(-1)^floor(x) * exp(-frac(x)),
\* each factor from the power series sum_k (-t)^k / k!.
ExpScale == 2^14

RECURSIVE ExpSeries(_, _, _, _)
ExpSeries(t, k, term, acc) ==
    IF k > ExpTerms \/ term = 0 THEN acc
    ELSE LET nxt == (term * t) \div (ExpScale * k)
         IN  ExpSeries(t, k + 1, nxt,
                       IF k % 2 = 1 THEN acc - nxt ELSE acc + nxt)

\* exp(-t/ExpScale) * ExpScale for 0 <= t <= ExpScale
ExpNegFrac(t) == ExpSeries(t, 1, ExpScale, ExpScale)

RECURSIVE ExpNegPow(_, _)
ExpNegPow(q, acc) ==
    IF q = 0 \/ acc = 0 THEN acc
    ELSE ExpNegPow(q - 1, RoundInt(acc * ExpNegFrac(ExpScale), ExpScale))

\* exp(-x/One) * ExpScale for a finite float x >= 0
ExpNegFixed(x) == ExpNegPow(x \div One, ExpNegFrac((x % One) * (ExpScale \div One)))

\* math.exp(-x) for a float x; exp of a positive number is the reciprocal
ExpNeg(x) ==
    IF x = NaN THEN NaN
    ELSE IF x = PosInf THEN 0
    ELSE IF x = NegInf THEN PosInf
    ELSE IF x >= 0 THEN RoundFloat(ExpNegFixed(x) * One, ExpScale)
    ELSE IF ExpNegFixed(0 - x) = 0 THEN PosInf
    ELSE RoundFloat(ExpScale * One, ExpNegFixed(0 - x))

\* --------------------------------------------- math.sin/cos/sqrt/atan2
\* The geodesy of haversine_km is evaluated in signed fixed point with
\* GeoScale units per 1.0 (radians, and the dimensionless a and c);
\* coordinates are whole degrees and distances are in 1/GeoScale km.
GeoScale == 10^4
TrigTerms == 9
AtanTerms == 18

GMul(a, b) == RoundDiv(a * b, GeoScale)

\* sum_k (-1)^k x^(2k+j) / (2k+j)!  from the term of index k on (j = 1: sin,
\* j = 0: cos); x2 is x*x
RECURSIVE TrigSeries(_, _, _, _, _)
TrigSeries(x2, j, k, term, acc) ==
    IF k > TrigTerms \/ term = 0 THEN acc
    ELSE LET nxt == 0 - RoundDiv(term * x2, GeoScale * (2 * k + j - 1) * (2 * k + j))
         IN  TrigSeries(x2, j, k + 1, nxt, acc + nxt)

\* math.sin(x), math.cos(x) for |x| <= pi/2
Sin(x) == TrigSeries(GMul(x, x), 1, 1, x, x)
Cos(x) == TrigSeries(GMul(x, x), 0, 1, GeoScale, GeoScale)

RECURSIVE IsqrtIter(_, _, _)
IsqrtIter(n, lo, hi) ==
    IF lo >= hi THEN lo
    ELSE LET mid == (lo + hi + 1) \div 2
         IN  IF mid * mid <= n THEN IsqrtIter(n, mid, hi)
             ELSE IsqrtIter(n, lo, mid - 1)

\* math.sqrt(a) for 0 <= a <= 2.0
Sqrt(a) == IsqrtIter(a * GeoScale, 0, 2 * GeoScale)

\* atan(t) = t/(1+t^2) * sum_n c_n u^n, u = t^2/(1+t^2),
\* c_0 = 1, c_(n+1) = c_n (2n+2)/(2n+3), for 0 <= t <= 1.0
RECURSIVE AtanSeries(_, _, _, _)
AtanSeries(u, n, term, acc) ==
    IF n >= AtanTerms \/ term = 0 THEN acc
    ELSE LET nxt == RoundDiv(term * u * (2 * n + 2), GeoScale * (2 * n + 3))
         IN  AtanSeries(u, n + 1, nxt, acc + nxt)

Atan(t) ==
    LET t2 == GMul(t, t)
        d == GeoScale + t2
        base == RoundDiv(t * GeoScale, d)
        u == RoundDiv(t2 * GeoScale, d)
    IN  AtanSeries(u, 0, base, base)

Pi == 4 * Atan(GeoScale)

\* math.atan2(y, x) for y >= 0, x >= 0
Atan2(y, x) ==
    IF y = 0 THEN 0
    ELSE IF y <= x THEN Atan(RoundDiv(y * GeoScale, x))
    ELSE RoundDiv(Pi, 2) - Atan(RoundDiv(x * GeoScale, y))

\* math.radians(deg) for whole degrees
Radians(deg) == RoundDiv(deg * Pi, 180)

\* ------------------------------------------------------- haversine_km
EARTH_RADIUS_KM == 6371

Sq(x) == GMul(x, x)

\* the value a as it would be with cos(lat1) taken twice
HaversineACosOfFirst(lat1_r, lon1_r, lat2_r, lon2_r) ==
    Sq(Sin(RoundDiv(lat2_r - lat1_r, 2)))
      + GMul(GMul(Cos(lat1_r), Cos(lat1_r)), Sq(Sin(RoundDiv(lon2_r - lon1_r, 2))))

\* the value a of haversine_km, from the four angles in radians
HaversineA(lat1_r, lon1_r, lat2_r, lon2_r) ==
    Sq(Sin(RoundDiv(lat2_r - lat1_r, 2)))
      + GMul(GMul(Cos(lat1_r), Cos(lat2_r)), Sq(Sin(RoundDiv(lon2_r - lon1_r, 2))))

\* EARTH_RADIUS_KM * c with c = 2 atan2(sqrt(a), sqrt(1 - a)), in 1/GeoScale
\* km; MathDomainError when math.sqrt is handed a negative number
MathDomainError == 0 - 1
HaversineKm(a) ==
    IF a < 0 \/ GeoScale - a < 0 THEN MathDomainError
    ELSE EARTH_RADIUS_KM * (2 * Atan2(Sqrt(a), Sqrt(GeoScale - a)))

haversine_km(lat1, lon1, lat2, lon2) ==
    HaversineKm(HaversineA(Radians(lat1), Radians(lon1),
                           Radians(lat2), Radians(lon2)))

\* a distance or radius of whole km
Km(k) == k * GeoScale

\* ------------------------------------------------------- dicts, results
\* "k in d", d.get(k, default)
Has(d, k) == k \in DOMAIN d
Get(d, k, default) == IF Has(d, k) THEN d[k] ELSE default
PyNone == PosInf + 3
\* the dict d restricted to keys; the union of two dicts with disjoint keys
Restrict(d, keys) == [k \in DOMAIN d \cap keys |-> d[k]]
Merge(d1, d2) ==
    [k \in DOMAIN d1 \cup DOMAIN d2 |-> IF k \in DOMAIN d1 THEN d1[k] ELSE d2[k]]

\* what a call of a trigger rule does: it returns val, or raises exc
Returns(b) == [exc |-> "", msg |-> "", val |-> b]
Raises(e, m) == [exc |-> e, msg |-> m, val |-> FALSE]

\* the radius test as it would be with a strict comparison
WithinRadiusStrict(dist, params) ==
    IF dist = MathDomainError THEN Raises("ValueError", "math domain error")
    ELSE IF ~Has(params, "R_km") THEN Raises("KeyError", "R_km")
    ELSE Returns(dist < params.R_km)

\* "return dist <= params["R_km"]", for the dist haversine_km gave (or the
\* exception it raised)
WithinRadius(dist, params) ==
    IF dist = MathDomainError THEN Raises("ValueError", "math domain error")
    ELSE IF ~Has(params, "R_km") THEN Raises("KeyError", "R_km")
    ELSE Returns(dist <= params.R_km)

\* ------------------------------------------------- earthquake_trigger
\* earthquake_trigger as it would be if a magnitude equal to M0 did not
\* qualify
EarthquakeTriggerAboveOnly(unit, event, params) ==
    LET mag == Get(event, "value", Get(event, "magnitude", PyNone))
    IN  IF mag = PyNone
        THEN Raises("ValueError", "Event has neither 'value' nor 'magnitude' field")
        ELSE IF ~Has(params, "M0") THEN Raises("KeyError", "M0")
        ELSE IF mag <= params.M0 THEN Returns(FALSE)
        ELSE IF ~Has(unit, "lat") THEN Raises("KeyError", "lat")
        ELSE IF ~Has(unit, "lon") THEN Raises("KeyError", "lon")
        ELSE IF ~Has(event, "lat") THEN Raises("KeyError", "lat")
        ELSE IF ~Has(event, "lon") THEN Raises("KeyError", "lon")
        ELSE WithinRadius(haversine_km(unit.lat, unit.lon, event.lat, event.lon),
                          params)

earthquake_trigger(unit, event, params) ==
    LET mag == Get(event, "value", Get(event, "magnitude", PyNone))
    IN  IF mag = PyNone
        THEN Raises("ValueError", "Event has neither 'value' nor 'magnitude' field")
        ELSE IF ~Has(params, "M0") THEN Raises("KeyError", "M0")
        ELSE IF mag < params.M0 THEN Returns(FALSE)
        ELSE IF ~Has(unit, "lat") THEN Raises("KeyError", "lat")
        ELSE IF ~Has(unit, "lon") THEN Raises("KeyError", "lon")
        ELSE IF ~Has(event, "lat") THEN Raises("KeyError", "lat")
        ELSE IF ~Has(event, "lon") THEN Raises("KeyError", "lon")
        ELSE WithinRadius(haversine_km(unit.lat, unit.lon, event.lat, event.lon),
                          params)

\* GeoRadiusThreshold as it would be if an absent field made the rule answer
\* "no trigger" instead of raising
GeoRadiusThresholdLenient(unit, event, params) ==
    LET value == Get(event, "value", Get(event, "magnitude", PyNone))
        threshold == Get(params, "threshold", Get(params, "M0", PyNone))
    IN  IF value = PyNone \/ threshold = PyNone THEN Returns(FALSE)
        ELSE IF value < threshold THEN Returns(FALSE)
        ELSE IF ~Has(unit, "lat") THEN Raises("KeyError", "lat")
        ELSE IF ~Has(unit, "lon") THEN Raises("KeyError", "lon")
        ELSE IF ~Has(event, "lat") THEN Raises("KeyError", "lat")
        ELSE IF ~Has(event, "lon") THEN Raises("KeyError", "lon")
        ELSE WithinRadius(haversine_km(unit.lat, unit.lon, event.lat, event.lon),
                          params)

\* ------------------------------------------------- GeoRadiusThreshold
GeoRadiusThreshold(unit, event, params) ==
    LET value == Get(event, "value", Get(event, "magnitude", PyNone))
        threshold == Get(params, "threshold", Get(params, "M0", PyNone))
    IN  IF value = PyNone
        THEN Raises("ValueError", "Event missing 'value' (and 'magnitude') field")
        ELSE IF threshold = PyNone
        THEN Raises("ValueError", "params missing 'threshold' (and 'M0')")
        ELSE IF value < threshold THEN Returns(FALSE)
        ELSE IF ~Has(unit, "lat") THEN Raises("KeyError", "lat")
        ELSE IF ~Has(unit, "lon") THEN Raises("KeyError", "lon")
        ELSE IF ~Has(event, "lat") THEN Raises("KeyError", "lat")
        ELSE IF ~Has(event, "lon") THEN Raises("KeyError", "lon")
        ELSE WithinRadius(haversine_km(unit.lat, unit.lon, event.lat, event.lon),
                          params)

\* ------------------------------------------- PolygonContainsThreshold
\* One edge (x1,y1)-(x2,y2) of the ray cast from (px,py): "flip", "keep", or
\* "ZeroDivisionError".  px <= xinters, with
\* xinters = (py - y1) * (x2 - x1) / (y2 - y1) + x1, is decided exactly on
\* the cross-multiplied integers; on whole-degree coordinates the float
\* quotient is either exact or far from every integer, so the float
\* comparison decides the same.
\* the edge test as it would be with the range of y closed at both ends
EdgeCrossingClosedRange(px, py, x1, y1, x2, y2) ==
    IF Min2(y1, y2) <= py /\ py <= Max2(y1, y2)
    THEN IF x1 = x2
         THEN (IF px <= x1 THEN "flip" ELSE "keep")
         ELSE IF y2 - y1 = 0 THEN "ZeroDivisionError"
         ELSE LET num == (py - y1) * (x2 - x1)
                  den == y2 - y1
                  le == IF den > 0 THEN (px - x1) * den <= num
                        ELSE (px - x1) * den >= num
              IN  IF le THEN "flip" ELSE "keep"
    ELSE "keep"

EdgeCrossing(px, py, x1, y1, x2, y2) ==
    IF Min2(y1, y2) < py /\ py <= Max2(y1, y2)
    THEN IF x1 = x2
         THEN (IF px <= x1 THEN "flip" ELSE "keep")
         ELSE IF y2 - y1 = 0 THEN "ZeroDivisionError"
         ELSE LET num == (py - y1) * (x2 - x1)
                  den == y2 - y1
                  le == IF den > 0 THEN (px - x1) * den <= num
                        ELSE (px - x1) * den >= num
              IN  IF le THEN "flip" ELSE "keep"
    ELSE "keep"

\* the loop "for i in range(1, n)" from the edge ending at vertex i (1-based
\* here: polygon[i]) on
RECURSIVE PointInPolygonFrom(_, _, _, _, _)
PointInPolygonFrom(px, py, polygon, i, inside) ==
    IF i > Len(polygon) THEN Returns(inside)
    ELSE LET c == EdgeCrossing(px, py, polygon[i - 1][1], polygon[i - 1][2],
                               polygon[i][1], polygon[i][2])
         IN  IF c = "ZeroDivisionError"
             THEN Raises("ZeroDivisionError", "float division by zero")
             ELSE PointInPolygonFrom(px, py, polygon, i + 1,
                                     IF c = "flip" THEN ~inside ELSE inside)

\* the ray cast as it would be with the loop starting one edge late
PointInPolygonSkipsFirstEdge(px, py, polygon) ==
    IF Len(polygon) = 0 THEN Raises("IndexError", "list index out of range")
    ELSE PointInPolygonFrom(px, py, polygon, 3, FALSE)

_point_in_polygon(px, py, polygon) ==
    IF Len(polygon) = 0 THEN Raises("IndexError", "list index out of range")
    ELSE PointInPolygonFrom(px, py, polygon, 2, FALSE)

PolygonContainsThreshold(unit, event, params) ==
    LET value == Get(event, "value", Get(event, "magnitude", PyNone))
        threshold == Get(params, "threshold", Get(params, "M0", PyNone))
    IN  IF ~Has(unit, "polygon")
        THEN (IF ~Has(unit, "id") THEN Raises("KeyError", "id")
              ELSE Raises("ValueError", "Unit missing 'polygon' field"))
        ELSE IF value = PyNone THEN Raises("ValueError", "Event missing 'value' field")
        ELSE IF threshold = PyNone THEN Raises("ValueError", "params missing 'threshold'")
        ELSE IF value < threshold THEN Returns(FALSE)
        ELSE IF ~Has(event, "lon") THEN Raises("KeyError", "lon")
        ELSE IF ~Has(event, "lat") THEN Raises("KeyError", "lat")
        ELSE _point_in_polygon(event.lon, event.lat, unit.polygon)

\* IndexTimeSeriesThreshold as it would be without the test of unit_id
IndexTimeSeriesThresholdAnyUnit(unit, event, params) ==
    IF ~Has(event, "value") THEN Raises("ValueError", "Event missing 'value' field")
    ELSE IF ~Has(params, "threshold") THEN Raises("ValueError", "params missing 'threshold'")
    ELSE Returns(event.value >= params.threshold)

\* ------------------------------------------- IndexTimeSeriesThreshold
IndexTimeSeriesThreshold(unit, event, params) ==
    IF ~Has(unit, "id") THEN Raises("KeyError", "id")
    ELSE IF ~Has(event, "unit_id") \/ event.unit_id # unit.id THEN Returns(FALSE)
    ELSE IF ~Has(event, "value") THEN Raises("ValueError", "Event missing 'value' field")
    ELSE IF ~Has(params, "threshold") THEN Raises("ValueError", "params missing 'threshold'")
    ELSE Returns(event.value >= params.threshold)

\* ------------------------------------------------------ the rule called
\* The registry: rule name -> the instance built once when the module is
\* loaded.  An instance is its class and the identity of the object.
TRIGGER_REGISTRY ==
    [geo_radius_threshold |-> [class |-> "GeoRadiusThreshold", obj |-> 1],
     polygon_contains_threshold |-> [class |-> "PolygonContainsThreshold", obj |-> 2],
     index_timeseries_threshold |-> [class |-> "IndexTimeSeriesThreshold", obj |-> 3]]

\* sorted(TRIGGER_REGISTRY): the names in the order of their code points
SortedRegistryNames ==
    <<"geo_radius_threshold", "index_timeseries_threshold",
      "polygon_contains_threshold">>

\* repr of a list of str: ['a', 'b']
RECURSIVE ReprItems(_)
ReprItems(names) ==
    IF Len(names) = 0 THEN ""
    ELSE IF Len(names) = 1 THEN "'" \o names[1] \o "'"
    ELSE "'" \o names[1] \o "', " \o ReprItems(Tail(names))
ReprList(names) == "[" \o ReprItems(names) \o "]"

\* get_trigger as it would be if an unknown name fell back to the first rule
GetTriggerWithFallback(name) ==
    IF name \notin DOMAIN TRIGGER_REGISTRY
    THEN Returns(TRIGGER_REGISTRY["geo_radius_threshold"])
    ELSE Returns(TRIGGER_REGISTRY[name])

\* get_trigger(name)
get_trigger(name) ==
    IF name \notin DOMAIN TRIGGER_REGISTRY
    THEN Raises("KeyError",
                "Unknown trigger rule '" \o name \o "'. Available: "
                    \o ReprList(SortedRegistryNames))
    ELSE Returns(TRIGGER_REGISTRY[name])

\* trigger_fn is None (the default, earthquake_trigger) or one of the three
\* registered rule instances, named as in TRIGGER_REGISTRY.
TriggerFns == {"None"} \cup DOMAIN TRIGGER_REGISTRY

\* trigger_fn(unit, event, params)
CallTriggerFn(fn, unit, event, params) ==
    IF fn = "None" THEN earthquake_trigger(unit, event, params)
    ELSE IF fn = "geo_radius_threshold" THEN GeoRadiusThreshold(unit, event, params)
    ELSE IF fn = "polygon_contains_threshold"
    THEN PolygonContainsThreshold(unit, event, params)
    ELSE IndexTimeSeriesThreshold(unit, event, params)

\* ----------------------------------------------------- input validation
_PRICING_PARAMS == {"T_years", "L", "alpha", "T_hist_years"}
_EARTHQUAKE_EXTRA_PARAMS == {"M0", "R_km"}
_REQUIRED_UNIT_FIELDS == {"id"}
_REQUIRED_EVENT_FIELDS_GENERIC == {"lat", "lon", "value", "time"}
_REQUIRED_EVENT_FIELDS_LEGACY == {"lat", "lon", "magnitude", "time"}

\* A value that may or may not be a Python list: isinstance(v, list) is
\* v.list, and its elements are v.items.
PyList(items) == [list |-> TRUE, items |-> items]
NotAList == [list |-> FALSE, items |-> <<>>]

\* "return None" of a check
Passes == Returns(TRUE)

_assert_finite_number(value, name) ==
    IF value = NonNumber \/ value = PyNone
    THEN Raises("ValueError", name \o " must be a number")
    ELSE IF value = NaN \/ value = PosInf \/ value = NegInf
    THEN Raises("ValueError", name \o " must be finite")
    ELSE Passes

\* the loop over units from index i (1-based here) on
RECURSIVE ValidateUnitsFrom(_, _)
ValidateUnitsFrom(units, i) ==
    IF i > Len(units) THEN Passes
    ELSE IF ~Has(units[i], "id")
    THEN Raises("ValueError", "Unit at index " \o ToString(i - 1) \o " missing 'id'")
    ELSE ValidateUnitsFrom(units, i + 1)

\* the numeric fields of one event, in the order lat, lon, value, magnitude
RECURSIVE ValidateEventNumbers(_, _, _)
ValidateEventNumbers(e, i, fields) ==
    IF fields = <<>> THEN Passes
    ELSE LET f == Head(fields)
             r == IF Has(e, f)
                  THEN _assert_finite_number(
                           e[f], "events[" \o ToString(i - 1) \o "]." \o f)
                  ELSE Passes
         IN  IF r.exc # "" THEN r
             ELSE ValidateEventNumbers(e, i, Tail(fields))

\* the loop over events as it would be if it stopped after one event
ValidateEventsFirstOnly(events, i) ==
    IF i > Len(events) THEN Passes
    ELSE LET e == events[i]
             has_generic == _REQUIRED_EVENT_FIELDS_GENERIC \subseteq DOMAIN e
             has_legacy == _REQUIRED_EVENT_FIELDS_LEGACY \subseteq DOMAIN e
             r == ValidateEventNumbers(e, i, <<"lat", "lon", "value", "magnitude">>)
         IN  IF ~has_generic /\ ~has_legacy
             THEN Raises("ValueError",
                         "Event at index " \o ToString(i - 1) \o " must have fields")
             ELSE r

\* the loop over events from index i (1-based here) on
RECURSIVE ValidateEventsFrom(_, _)
ValidateEventsFrom(events, i) ==
    IF i > Len(events) THEN Passes
    ELSE LET e == events[i]
             has_generic == _REQUIRED_EVENT_FIELDS_GENERIC \subseteq DOMAIN e
             has_legacy == _REQUIRED_EVENT_FIELDS_LEGACY \subseteq DOMAIN e
             r == ValidateEventNumbers(e, i, <<"lat", "lon", "value", "magnitude">>)
         IN  IF ~has_generic /\ ~has_legacy
             THEN Raises("ValueError",
                         "Event at index " \o ToString(i - 1) \o " must have fields")
             ELSE IF r.exc # "" THEN r
             ELSE ValidateEventsFrom(events, i + 1)

\* the finiteness checks of the four core params, in the code's order
RECURSIVE ValidateParamNumbers(_, _)
ValidateParamNumbers(params, names) ==
    IF names = <<>> THEN Passes
    ELSE LET r == _assert_finite_number(params[Head(names)],
                                        "params." \o Head(names))
         IN  IF r.exc # "" THEN r
             ELSE ValidateParamNumbers(params, Tail(names))

\* the params part as it would be if R_km were checked in the default mode
\* only
ValidateParamsRkmByDefaultOnly(params, require_earthquake_params) ==
    LET required == IF require_earthquake_params
                    THEN _PRICING_PARAMS \cup _EARTHQUAKE_EXTRA_PARAMS
                    ELSE _PRICING_PARAMS
        missing_p == required \ DOMAIN params
        finite == ValidateParamNumbers(
                      params, <<"T_years", "L", "alpha", "T_hist_years">>)
        r_km == _assert_finite_number(params.R_km, "params.R_km")
    IN  IF missing_p # {} THEN Raises("ValueError", "Missing params")
        ELSE IF finite.exc # "" THEN finite
        ELSE IF params.T_hist_years <= 0
        THEN Raises("ValueError", "T_hist_years must be > 0")
        ELSE IF params.T_years < 0 THEN Raises("ValueError", "T_years must be >= 0")
        ELSE IF params.L < 0 THEN Raises("ValueError", "L must be >= 0")
        ELSE IF params.alpha < 0 THEN Raises("ValueError", "alpha must be >= 0")
        ELSE IF require_earthquake_params /\ r_km.exc # "" THEN r_km
        ELSE IF require_earthquake_params /\ params.R_km < 0
        THEN Raises("ValueError", "R_km must be >= 0")
        ELSE IF Has(params, "M0")
        THEN _assert_finite_number(params.M0, "params.M0")
        ELSE Passes

\* the params part as it would be if M0 and R_km were required whatever the
\* flag
ValidateParamsAlwaysEarthquake(params, require_earthquake_params) ==
    LET missing_p == (_PRICING_PARAMS \cup _EARTHQUAKE_EXTRA_PARAMS) \ DOMAIN params
        finite == ValidateParamNumbers(
                      params, <<"T_years", "L", "alpha", "T_hist_years">>)
        r_km == _assert_finite_number(params.R_km, "params.R_km")
    IN  IF missing_p # {} THEN Raises("ValueError", "Missing params")
        ELSE IF finite.exc # "" THEN finite
        ELSE IF params.T_hist_years <= 0
        THEN Raises("ValueError", "T_hist_years must be > 0")
        ELSE IF params.T_years < 0 THEN Raises("ValueError", "T_years must be >= 0")
        ELSE IF params.L < 0 THEN Raises("ValueError", "L must be >= 0")
        ELSE IF params.alpha < 0 THEN Raises("ValueError", "alpha must be >= 0")
        ELSE IF Has(params, "R_km") /\ r_km.exc # "" THEN r_km
        ELSE IF Has(params, "R_km") /\ params.R_km < 0
        THEN Raises("ValueError", "R_km must be >= 0")
        ELSE IF Has(params, "M0")
        THEN _assert_finite_number(params.M0, "params.M0")
        ELSE Passes

\* the part of _validate_input on params
ValidateParams(params, require_earthquake_params) ==
    LET required == IF require_earthquake_params
                    THEN _PRICING_PARAMS \cup _EARTHQUAKE_EXTRA_PARAMS
                    ELSE _PRICING_PARAMS
        missing_p == required \ DOMAIN params
        finite == ValidateParamNumbers(
                      params, <<"T_years", "L", "alpha", "T_hist_years">>)
        r_km == _assert_finite_number(params.R_km, "params.R_km")
    IN  IF missing_p # {} THEN Raises("ValueError", "Missing params")
        ELSE IF finite.exc # "" THEN finite
        ELSE IF params.T_hist_years <= 0
        THEN Raises("ValueError", "T_hist_years must be > 0")
        ELSE IF params.T_years < 0 THEN Raises("ValueError", "T_years must be >= 0")
        ELSE IF params.L < 0 THEN Raises("ValueError", "L must be >= 0")
        ELSE IF params.alpha < 0 THEN Raises("ValueError", "alpha must be >= 0")
        ELSE IF Has(params, "R_km") /\ r_km.exc # "" THEN r_km
        ELSE IF Has(params, "R_km") /\ params.R_km < 0
        THEN Raises("ValueError", "R_km must be >= 0")
        ELSE IF Has(params, "M0")
        THEN _assert_finite_number(params.M0, "params.M0")
        ELSE Passes

\* _validate_input as it would be if an empty units list were let through
ValidateInputAllowsNoUnits(input_json, require_earthquake_params) ==
    IF ~Has(input_json, "units") THEN Raises("ValueError", "Missing 'units' key")
    ELSE IF ~input_json.units.list
    THEN Raises("ValueError", "'units' must be a non-empty list")
    ELSE IF ValidateUnitsFrom(input_json.units.items, 1).exc # ""
    THEN ValidateUnitsFrom(input_json.units.items, 1)
    ELSE IF ~Has(input_json, "events") THEN Raises("ValueError", "Missing 'events' key")
    ELSE IF ~input_json.events.list
    THEN Raises("ValueError", "'events' must be a list")
    ELSE IF ValidateEventsFrom(input_json.events.items, 1).exc # ""
    THEN ValidateEventsFrom(input_json.events.items, 1)
    ELSE IF ~Has(input_json, "params") THEN Raises("ValueError", "Missing 'params' key")
    ELSE ValidateParams(input_json.params, require_earthquake_params)

\* _validate_input as it would be if the params were checked before the events
ValidateInputParamsBeforeEvents(input_json, require_earthquake_params) ==
    IF ~Has(input_json, "units") THEN Raises("ValueError", "Missing 'units' key")
    ELSE IF ~input_json.units.list \/ Len(input_json.units.items) = 0
    THEN Raises("ValueError", "'units' must be a non-empty list")
    ELSE IF ValidateUnitsFrom(input_json.units.items, 1).exc # ""
    THEN ValidateUnitsFrom(input_json.units.items, 1)
    ELSE IF ~Has(input_json, "params") THEN Raises("ValueError", "Missing 'params' key")
    ELSE IF ValidateParams(input_json.params, require_earthquake_params).exc # ""
    THEN ValidateParams(input_json.params, require_earthquake_params)
    ELSE IF ~Has(input_json, "events") THEN Raises("ValueError", "Missing 'events' key")
    ELSE IF ~input_json.events.list
    THEN Raises("ValueError", "'events' must be a list")
    ELSE ValidateEventsFrom(input_json.events.items, 1)

\* _validate_input; input_json is always a dict here
_validate_input(input_json, require_earthquake_params) ==
    IF ~Has(input_json, "units") THEN Raises("ValueError", "Missing 'units' key")
    ELSE IF ~input_json.units.list \/ Len(input_json.units.items) = 0
    THEN Raises("ValueError", "'units' must be a non-empty list")
    ELSE IF ValidateUnitsFrom(input_json.units.items, 1).exc # ""
    THEN ValidateUnitsFrom(input_json.units.items, 1)
    ELSE IF ~Has(input_json, "events") THEN Raises("ValueError", "Missing 'events' key")
    ELSE IF ~input_json.events.list
    THEN Raises("ValueError", "'events' must be a list")
    ELSE IF ValidateEventsFrom(input_json.events.items, 1).exc # ""
    THEN ValidateEventsFrom(input_json.events.items, 1)
    ELSE IF ~Has(input_json, "params") THEN Raises("ValueError", "Missing 'params' key")
    ELSE ValidateParams(input_json.params, require_earthquake_params)

\* ------------------------------------------------------- pricing formulas
\* The row appended for a unit with n_trigger qualifying events; a division
\* by T_hist_years = 0 raises instead.
NoRow == [id |-> "", n_trigger_events |-> 0, lambda |-> 0,
          trigger_probability |-> 0, expected_loss |-> 0, premium |-> 0]

\* the short-circuit test as it would be without its third disjunct
ShortCircuitWithoutL(n_trigger, T_years, L) == n_trigger = 0 \/ T_years = 0

\* "if n_trigger == 0 or T_years == 0 or L == 0"
ShortCircuit(n_trigger, T_years, L) == n_trigger = 0 \/ T_years = 0 \/ L = 0

\* "lam = n_trigger / T_hist_years"
Lam(n_trigger, T_hist_years) == FDivCount(n_trigger, T_hist_years)

\* p_trigger as it would be with the sign of the exponential slipped
PTriggerSignSlip(lam, T_years) == FAddOne(ExpNeg(FMul(lam, T_years)))

\* "p_trigger = 1.0 - math.exp(-lam * T_years)"
PTrigger(lam, T_years) == FOneMinus(ExpNeg(FMul(lam, T_years)))

\* expected_loss as it would be with the probability added to 1
ExpectedLossOfOnePlus(L, p_trigger) == FMul(L, FAddOne(p_trigger))

\* "expected_loss = L * p_trigger"
ExpectedLoss(L, p_trigger) == FMul(L, p_trigger)

\* the premium as it would be with the loading alone as the factor
PremiumLoadingOnly(expected_loss, alpha) == FMul(expected_loss, alpha)

\* "premium = expected_loss * (1.0 + alpha)"
Premium(expected_loss, alpha) == FMul(expected_loss, FAddOne(alpha))

Row(id, n_trigger, lam, p_trigger, expected_loss, premium) ==
    [id |-> id, n_trigger_events |-> n_trigger, lambda |-> lam,
     trigger_probability |-> p_trigger, expected_loss |-> expected_loss,
     premium |-> premium]

\* the row of the else branch, each local computed from the one before
RegularRow(id, n_trigger, lam, T_years, L, alpha) ==
    Row(id, n_trigger, lam, PTrigger(lam, T_years),
        ExpectedLoss(L, PTrigger(lam, T_years)),
        Premium(ExpectedLoss(L, PTrigger(lam, T_years)), alpha))

PriceRow(unit, n_trigger, params) ==
    IF n_trigger # 0 /\ params.T_hist_years = 0
    THEN [exc |-> "ZeroDivisionError", msg |-> "division by zero", row |-> NoRow]
    ELSE IF ShortCircuit(n_trigger, params.T_years, params.L)
    THEN [exc |-> "", msg |-> "",
          row |-> Row(unit.id, n_trigger,
                      IF n_trigger = 0 THEN 0
                      ELSE Lam(n_trigger, params.T_hist_years),
                      0, 0, 0)]
    ELSE [exc |-> "", msg |-> "",
          row |-> RegularRow(unit.id, n_trigger,
                             Lam(n_trigger, params.T_hist_years),
                             params.T_years, params.L, params.alpha)]

\* ------------------------------------------------------------ the state
VARIABLES
    input_json,     \* the dict handed to compute_premiums
    trigger_fn,     \* the rule handed to it: "None" or a registered rule
    supplied,       \* the caller's record of input_json as it was supplied
    pc,             \* where the call is: "validate", "loop", "returned",
                    \* "raised"; "call"/"called" for a rule called directly
    ui,             \* position of "for unit in units" (1-based)
    ei,             \* position of "for event in events" (1-based)
    n_trigger,      \* the local n_trigger
    results,        \* the local list results
    outcome,        \* what the caller has received from the call
    calls,          \* the (unit, event) positions trigger_fn was invoked on
    run,            \* 1: the first call on this input, 2: the second
    first,          \* what the first call gave the caller
    workers,        \* the units evaluated one per worker: for each unit the
                    \* worker's own event position, count and row
    fetch           \* a call of get_json: max_retries, the loop variable
                    \* attempt, what each request met, and the seconds slept

vars == <<input_json, trigger_fn, supplied, pc, ui, ei, n_trigger, results,
          outcome, calls, run, first, workers, fetch>>

\* what the caller holds: nothing yet, the returned dict, or the exception
Pending ==
    [status |-> "running", exc |-> "", msg |-> "",
     params_echo |-> <<>>, results |-> <<>>]
Returned(params_echo, rows) ==
    [status |-> "returned", exc |-> "", msg |-> "",
     params_echo |-> params_echo, results |-> rows]
Raised(e, m) ==
    [status |-> "raised", exc |-> e, msg |-> m,
     params_echo |-> <<>>, results |-> <<>>]

\* the list results as it would be if it outlived the call (a module-level
\* list or a mutable default)
StaleResults == results

\* "results: list[dict] = []"
FreshResults == <<>>

\* the count as it would be if every evaluated event were counted
CountStepEveryEvent(n, hit) == n + 1

\* the count as it would be if an event that does not qualify set it back to 0
CountStepResetOnMiss(n, hit) == IF hit THEN n + 1 ELSE 0

\* "if trigger_fn(unit, event, params): n_trigger += 1"
CountStep(n, hit) == IF hit THEN n + 1 ELSE n

\* results.insert(0, row) in place of results.append(row)
InsertResultFirst(rows, row) == <<row>> \o rows

\* "results.append(row)"
AppendResult(rows, row) == Append(rows, row)

\* an echo that keeps the four pricing params only
ParamsEchoPricingOnly(params) == Restrict(params, _PRICING_PARAMS)

\* "params_echo": params
ParamsEcho(params) == params

\* compute_premiums as it would be if it entered the loop without calling
\* _validate_input
ValidateSkipped ==
    /\ pc = "validate"
    /\ UNCHANGED <<workers, fetch>>
    /\ pc' = "loop"
    /\ ui' = 1
    /\ ei' = 1
    /\ n_trigger' = 0
    /\ results' = <<>>
    /\ UNCHANGED <<input_json, trigger_fn, supplied, outcome, calls, run, first>>

\* the inner loop as it would be if an exception of the rule were caught and
\* the event skipped
CallTriggerSwallows ==
    /\ pc = "loop"
    /\ UNCHANGED <<workers, fetch>>
    /\ ui <= Len(input_json.units.items)
    /\ ei <= Len(input_json.events.items)
    /\ \E r \in {CallTriggerFn(trigger_fn, input_json.units.items[ui],
                               input_json.events.items[ei], input_json.params)} :
           n_trigger' = IF r.exc = "" /\ r.val THEN n_trigger + 1 ELSE n_trigger
    /\ ei' = ei + 1
    /\ calls' = Append(calls, <<ui, ei>>)
    /\ UNCHANGED <<input_json, trigger_fn, supplied, pc, ui, results, outcome,
                   run, first>>

\* the end of the inner loop as it would be if "n_trigger = 0" stood before
\* "for unit in units"
AppendRowKeepsCount ==
    /\ pc = "loop"
    /\ UNCHANGED <<workers, fetch>>
    /\ ui <= Len(input_json.units.items)
    /\ ei > Len(input_json.events.items)
    /\ \E r \in {PriceRow(input_json.units.items[ui], n_trigger,
                          input_json.params)} :
           IF r.exc # ""
           THEN /\ pc' = "raised"
                /\ outcome' = Raised(r.exc, r.msg)
                /\ UNCHANGED <<ui, ei, n_trigger, results>>
           ELSE /\ results' = AppendResult(results, r.row)
                /\ ui' = ui + 1
                /\ ei' = 1
                /\ UNCHANGED <<pc, outcome, n_trigger>>
    /\ UNCHANGED <<input_json, trigger_fn, supplied, calls, run, first>>

\* ---------------------------------------------------------- the actions
\* compute_premiums up to the loop: the default rule, _validate_input, the
\* locals
Validate ==
    /\ pc = "validate"
    /\ UNCHANGED <<workers, fetch>>
    /\ \E r \in {_validate_input(input_json, trigger_fn = "None")} :
           IF r.exc # ""
           THEN /\ pc' = "raised"
                /\ outcome' = Raised(r.exc, r.msg)
                /\ UNCHANGED <<ui, ei, n_trigger, results>>
           ELSE /\ pc' = "loop"
                /\ ui' = 1
                /\ ei' = 1
                /\ n_trigger' = 0
                /\ results' = FreshResults
                /\ UNCHANGED outcome
    /\ UNCHANGED <<input_json, trigger_fn, supplied, calls, run, first>>

\* one pass of the inner loop: trigger_fn on the next (unit, event) pair
CallTrigger ==
    /\ pc = "loop"
    /\ UNCHANGED <<workers, fetch>>
    /\ ui <= Len(input_json.units.items)
    /\ ei <= Len(input_json.events.items)
    /\ \E r \in {CallTriggerFn(trigger_fn, input_json.units.items[ui],
                               input_json.events.items[ei], input_json.params)} :
           IF r.exc # ""
           THEN /\ pc' = "raised"
                /\ outcome' = Raised(r.exc, r.msg)
                /\ UNCHANGED <<ei, n_trigger>>
           ELSE /\ n_trigger' = CountStep(n_trigger, r.val)
                /\ ei' = ei + 1
                /\ UNCHANGED <<pc, outcome>>
    /\ calls' = Append(calls, <<ui, ei>>)
    /\ UNCHANGED <<input_json, trigger_fn, supplied, ui, results, run, first>>

\* the inner loop is over: the pricing formulas and results.append, then the
\* next unit with n_trigger = 0
AppendRow ==
    /\ pc = "loop"
    /\ UNCHANGED <<workers, fetch>>
    /\ ui <= Len(input_json.units.items)
    /\ ei > Len(input_json.events.items)
    /\ \E r \in {PriceRow(input_json.units.items[ui], n_trigger,
                          input_json.params)} :
           IF r.exc # ""
           THEN /\ pc' = "raised"
                /\ outcome' = Raised(r.exc, r.msg)
                /\ UNCHANGED <<ui, ei, n_trigger, results>>
           ELSE /\ results' = AppendResult(results, r.row)
                /\ ui' = ui + 1
                /\ ei' = 1
                /\ n_trigger' = 0
                /\ UNCHANGED <<pc, outcome>>
    /\ UNCHANGED <<input_json, trigger_fn, supplied, calls, run, first>>

\* the outer loop is over: return {"params_echo": params, "results": results}
Return ==
    /\ pc = "loop"
    /\ UNCHANGED <<workers, fetch>>
    /\ ui > Len(input_json.units.items)
    /\ pc' = "returned"
    /\ outcome' = Returned(ParamsEcho(input_json.params), results)
    /\ UNCHANGED <<input_json, trigger_fn, supplied, ui, ei, n_trigger, results,
                   calls, run, first>>

\* the caller calls compute_premiums a second time on the same input
Rerun ==
    /\ pc \in {"returned", "raised"}
    /\ UNCHANGED <<workers, fetch>>
    /\ run = 1
    /\ run' = 2
    /\ first' = outcome
    /\ pc' = "validate"
    /\ outcome' = Pending
    /\ calls' = <<>>
    /\ UNCHANGED <<input_json, trigger_fn, supplied, ui, ei, n_trigger, results>>

\* a rule called directly on one (unit, event, params)
DirectCall ==
    /\ pc = "call"
    /\ UNCHANGED <<workers, fetch>>
    /\ \E r \in {CallTriggerFn(trigger_fn, input_json.units.items[1],
                               input_json.events.items[1], input_json.params)} :
           outcome' = IF r.exc # "" THEN Raised(r.exc, r.msg)
                      ELSE Returned(<<>>, <<r.val>>)
    /\ pc' = "called"
    /\ calls' = Append(calls, <<1, 1>>)
    /\ UNCHANGED <<input_json, trigger_fn, supplied, ui, ei, n_trigger, results,
                   run, first>>

\* a rule looked up by name
GetTrigger ==
    /\ pc = "lookup"
    /\ UNCHANGED <<workers, fetch>>
    /\ \E r \in {get_trigger(input_json.name)} :
           outcome' = IF r.exc # "" THEN Raised(r.exc, r.msg)
                      ELSE Returned(<<>>, <<r.val>>)
    /\ pc' = "looked"
    /\ UNCHANGED <<input_json, trigger_fn, supplied, ui, ei, n_trigger, results,
                   calls, run, first>>

\* the same name looked up a second time
LookupAgain ==
    /\ pc = "looked"
    /\ UNCHANGED <<workers, fetch>>
    /\ run = 1
    /\ run' = 2
    /\ first' = outcome
    /\ pc' = "lookup"
    /\ outcome' = Pending
    /\ UNCHANGED <<input_json, trigger_fn, supplied, ui, ei, n_trigger, results,
                   calls>>

Next == Validate \/ CallTrigger \/ AppendRow \/ Return \/ Rerun \/ DirectCall
            \/ GetTrigger \/ LookupAgain

\* ------------------------------- the default rule beside GeoRadiusThreshold
\* the caller of compute_premiums(input_json) calls
\* compute_premiums(input_json, GeoRadiusThreshold()) on the same input
RerunWithGeoRadius ==
    /\ pc \in {"returned", "raised"}
    /\ UNCHANGED <<workers, fetch>>
    /\ run = 1
    /\ trigger_fn = "None"
    /\ run' = 2
    /\ first' = outcome
    /\ trigger_fn' = "geo_radius_threshold"
    /\ pc' = "validate"
    /\ outcome' = Pending
    /\ calls' = <<>>
    /\ UNCHANGED <<input_json, supplied, ui, ei, n_trigger, results>>

NextDefault ==
    Validate \/ CallTrigger \/ AppendRow \/ Return \/ RerunWithGeoRadius

\* ------------------------------------------- the events in another order
\* the orders of a list of n elements
Orders(n) == { p \in [1..n -> 1..n] : \A i, j \in 1..n : i # j => p[i] # p[j] }

\* the caller calls compute_premiums again with the events of the first call
\* in another order (a new list; the first list stays as supplied)
RerunPermuted ==
    /\ pc \in {"returned", "raised"}
    /\ UNCHANGED <<workers, fetch>>
    /\ run = 1
    /\ run' = 2
    /\ first' = outcome
    /\ \E p \in Orders(Len(input_json.events.items)) :
           input_json' =
               [input_json EXCEPT
                   !.events = PyList([i \in 1..Len(input_json.events.items) |->
                                         input_json.events.items[p[i]]])]
    /\ pc' = "validate"
    /\ outcome' = Pending
    /\ calls' = <<>>
    /\ UNCHANGED <<trigger_fn, supplied, ui, ei, n_trigger, results>>

NextPermuted ==
    Validate \/ CallTrigger \/ AppendRow \/ Return \/ RerunPermuted

\* ------------------------------------------- haversine_km called directly
\* haversine_km on the two points of input_json: from the first to the
\* second, and on the second call from the second to the first
Measure ==
    /\ pc = "measure"
    /\ UNCHANGED <<workers, fetch>>
    /\ \E d \in {IF run = 1
                  THEN haversine_km(input_json.lat1, input_json.lon1,
                                    input_json.lat2, input_json.lon2)
                  ELSE haversine_km(input_json.lat2, input_json.lon2,
                                    input_json.lat1, input_json.lon1)} :
           outcome' = IF d = MathDomainError
                      THEN Raised("ValueError", "math domain error")
                      ELSE Returned(<<>>, <<d>>)
    /\ pc' = "measured"
    /\ UNCHANGED <<input_json, trigger_fn, supplied, ui, ei, n_trigger, results,
                   calls, run, first>>

\* the caller measures the same two points the other way round
MeasureBack ==
    /\ pc = "measured"
    /\ UNCHANGED <<workers, fetch>>
    /\ run = 1
    /\ run' = 2
    /\ first' = outcome
    /\ pc' = "measure"
    /\ outcome' = Pending
    /\ UNCHANGED <<input_json, trigger_fn, supplied, ui, ei, n_trigger, results,
                   calls>>

NextHaversine == Measure \/ MeasureBack

\* ------------------------------------------- one worker for each unit
\* The body of "for unit in units" run by one worker for each unit, the
\* workers interleaved in any order.  A worker has its own event position
\* and its own n_trigger, reads its unit, events and params, and writes its
\* own row.
StartWorker == [ei |-> 1, n_trigger |-> 0, status |-> "counting", row |-> NoRow]

\* the units of a returned call are handed to the workers
Fork ==
    /\ pc = "returned"
    /\ UNCHANGED fetch
    /\ run = 1
    /\ pc' = "workers"
    /\ workers' = [i \in 1..Len(input_json.units.items) |-> StartWorker]
    /\ UNCHANGED <<input_json, trigger_fn, supplied, ui, ei, n_trigger, results,
                   outcome, calls, run, first>>

\* worker i: one pass of "for event in events"
WorkerCall(i) ==
    /\ pc = "workers"
    /\ UNCHANGED fetch
    /\ workers[i].status = "counting"
    /\ workers[i].ei <= Len(input_json.events.items)
    /\ \E r \in {CallTriggerFn(trigger_fn, input_json.units.items[i],
                               input_json.events.items[workers[i].ei],
                               input_json.params)} :
           workers' =
               [workers EXCEPT ![i] =
                   IF r.exc # "" THEN [@ EXCEPT !.status = "raised"]
                   ELSE [@ EXCEPT !.n_trigger = CountStep(@, r.val),
                                  !.ei = @ + 1]]
    /\ UNCHANGED <<input_json, trigger_fn, supplied, pc, ui, ei, n_trigger,
                   results, outcome, calls, run, first>>

\* worker i: the pricing formulas on its own count
WorkerRow(i) ==
    /\ pc = "workers"
    /\ UNCHANGED fetch
    /\ workers[i].status = "counting"
    /\ workers[i].ei > Len(input_json.events.items)
    /\ \E r \in {PriceRow(input_json.units.items[i], workers[i].n_trigger,
                          input_json.params)} :
           workers' =
               [workers EXCEPT ![i] =
                   IF r.exc # "" THEN [@ EXCEPT !.status = "raised"]
                   ELSE [@ EXCEPT !.row = r.row, !.status = "done"]]
    /\ UNCHANGED <<input_json, trigger_fn, supplied, pc, ui, ei, n_trigger,
                   results, outcome, calls, run, first>>

WorkerStep == \E i \in DOMAIN workers : WorkerCall(i) \/ WorkerRow(i)

NextConcurrent ==
    Validate \/ CallTrigger \/ AppendRow \/ Return \/ Fork \/ WorkerStep

\* ------------------------------------------------------------ the inputs
\* sequences over S of length lo..hi
SeqsOf(S, lo, hi) == UNION {[1..n -> S] : n \in lo..hi}

\* the closed ring [(-30,-30), (30,-30), (30,30), (-30,30), (-30,-30)] of
\* (lon, lat) vertices
SquarePolygon ==
    << <<0 - 30, 0 - 30>>, <<30, 0 - 30>>, <<30, 30>>, <<0 - 30, 30>>,
       <<0 - 30, 0 - 30>> >>

CoreParams(T_hist_years, T_years, L, alpha) ==
    [T_hist_years |-> T_hist_years, T_years |-> T_years, L |-> L, alpha |-> alpha]

StartOf(inp, fn, at) ==
    /\ input_json = inp
    /\ supplied = inp
    /\ trigger_fn = fn
    /\ pc = at
    /\ ui = 1
    /\ ei = 1
    /\ n_trigger = 0
    /\ results = <<>>
    /\ outcome = Pending
    /\ calls = <<>>
    /\ run = 1
    /\ first = Pending
    /\ workers = <<>>
    /\ fetch = <<>>

\* Family 1: structure.  Units with and without a polygon, two units of one id,
\* generic and legacy events, every rule, params with and without the
\* rule's own parameters, and two range violations.
StructUnits ==
    { [id |-> "A", lat |-> 0, lon |-> 0, polygon |-> SquarePolygon],
      [id |-> "B", lat |-> 0, lon |-> 90],
      [id |-> "A", lat |-> 60, lon |-> 0] }
StructEvents ==
    { [lat |-> 0, lon |-> 0, value |-> 6, time |-> "2020-01-01T00:00:00Z",
       unit_id |-> "A"],
      [lat |-> 0, lon |-> 0, value |-> 2, time |-> "2020-06-01T00:00:00Z",
       unit_id |-> "A"],
      [lat |-> 0, lon |-> 90, magnitude |-> 6, time |-> "2021-01-01T00:00:00Z",
       unit_id |-> "B"] }
StructParams ==
    LET core == CoreParams(One, One, 8 * One, One \div 4)
    IN  { Merge(core, [M0 |-> 4, R_km |-> Km(100)]),
          Merge(core, [threshold |-> 4, R_km |-> Km(100)]),
          Merge(core, [threshold |-> 4]),
          core,
          Merge(CoreParams(One, One, 8 * One, 0 - (One \div 4)),
                [M0 |-> 4, R_km |-> Km(100)]),
          Merge(CoreParams(0, One, 8 * One, One \div 4),
                [M0 |-> 4, R_km |-> Km(100), threshold |-> 4]) }
InitStruct ==
    \E us \in SeqsOf(StructUnits, 1, MaxUnits),
       es \in SeqsOf(StructEvents, 0, MaxEvents),
       ps \in StructParams,
       fn \in TriggerFns :
        StartOf([units |-> PyList(us), events |-> PyList(es), params |-> ps],
                fn, "validate")

\* Family 2: numbers.  One unit, 0..MaxEvents events that all qualify under
\* the index rule, and the core params over the range of the float format.
NumericEvent ==
    [lat |-> 0, lon |-> 0, value |-> 6, time |-> "2020-01-01T00:00:00Z",
     unit_id |-> "A"]
InitNumeric ==
    \E n \in 0..MaxEvents,
       T_hist_years \in {1, One \div 4, One, 4 * One, MaxFinite},
       T_years \in {0, 1, One \div 8, One, 4 * One, MaxFinite},
       L \in {0, 1, One, MaxFinite},
       alpha \in {0, One \div 4, One, MaxFinite} :
        StartOf([units |-> PyList(<<[id |-> "A"]>>),
                 events |-> PyList([i \in 1..n |-> NumericEvent]),
                 params |-> Merge(CoreParams(T_hist_years, T_years, L, alpha),
                                  [threshold |-> 4])],
                "index_timeseries_threshold", "validate")

\* Family 3: a rule called directly, each field of the unit, the event and
\* the params present or absent.
CallUnits ==
    { Restrict([id |-> "A", lat |-> 0, lon |-> 0, polygon |-> SquarePolygon], ks) :
        ks \in { s \cup t \cup p : s \in {{}, {"id"}}, t \in {{}, {"lat", "lon"}},
                                   p \in {{}, {"polygon"}} } }
CallEvents ==
    { Restrict([lat |-> 0, lon |-> 0, value |-> v, magnitude |-> 6, unit_id |-> "A",
                time |-> "2020-01-01T00:00:00Z"], ks \cup {"time"}) :
        v \in {2, 6},
        ks \in { s \cup t \cup p \cup q : s \in {{}, {"value"}}, t \in {{}, {"magnitude"}},
                                          p \in {{}, {"lat", "lon"}},
                                          q \in {{}, {"unit_id"}} } }
CallParams ==
    { Restrict([threshold |-> 4, M0 |-> 7, R_km |-> Km(100)], ks) :
        ks \in SUBSET {"threshold", "M0", "R_km"} }
InitCall ==
    \E u \in CallUnits, e \in CallEvents, ps \in CallParams, fn \in TriggerFns :
        StartOf([units |-> PyList(<<u>>), events |-> PyList(<<e>>), params |-> ps],
                fn, "call")

\* Family 4: the boundaries of the geo rules.  A unit at (0, 0), an event at
\* the same point or a quarter of the equator away, values below, at and
\* above the threshold, and radii of 0 and just below, at and just above the
\* distance of the quarter arc.
BoundaryUnit == [id |-> "A", lat |-> 0, lon |-> 0]
BoundaryEvents ==
    { [lat |-> 0, lon |-> lon, value |-> v, time |-> "2020-01-01T00:00:00Z"] :
        lon \in {0, 90}, v \in {3, 4, 5} }
InitBoundary ==
    \E e \in BoundaryEvents, fn \in {"None", "geo_radius_threshold"},
       d \in {haversine_km(0, 0, 0, 90)} :
        \E r \in {0, d - 1, d, d + 1} :
            StartOf([units |-> PyList(<<BoundaryUnit>>), events |-> PyList(<<e>>),
                     params |-> [threshold |-> 4, M0 |-> 4, R_km |-> r]],
                    fn, "call")

\* Family 5: the index rule on regions.  Units that carry an id only, events
\* addressed to one region or the other, above and below the threshold.
IndexUnits == { [id |-> "A"], [id |-> "B"] }
IndexEvents ==
    { [lat |-> 0, lon |-> 0, value |-> v, time |-> "2020-03-01T00:00:00Z",
       unit_id |-> id] : <<id, v>> \in {<<"A", 6>>, <<"A", 2>>, <<"B", 6>>} }
InitIndex ==
    \E us \in SeqsOf(IndexUnits, 1, MaxUnits),
       es \in SeqsOf(IndexEvents, 0, MaxEvents) :
        StartOf([units |-> PyList(us), events |-> PyList(es),
                 params |-> Merge(CoreParams(One, One, 8 * One, One \div 4),
                                  [threshold |-> 4])],
                "index_timeseries_threshold", "validate")

\* Family 6: points around a square.  The closed ring of the square with
\* corners (+-30, +-30), listed in either direction and from either of two
\* corners, and events on a grid that has points strictly inside, on the
\* boundary and strictly outside, with values below, at and above the
\* threshold.
SquareRings ==
    { SquarePolygon,
      << <<0 - 30, 0 - 30>>, <<0 - 30, 30>>, <<30, 30>>, <<30, 0 - 30>>,
         <<0 - 30, 0 - 30>> >>,
      << <<30, 0 - 30>>, <<30, 30>>, <<0 - 30, 30>>, <<0 - 30, 0 - 30>>,
         <<30, 0 - 30>> >> }
GridCoordinates == {0 - 45, 0 - 30, 0 - 15, 0, 15, 30, 45}
InitPolygon ==
    \E ring \in SquareRings, lon \in GridCoordinates, lat \in GridCoordinates,
       v \in {2, 4, 6} :
        StartOf([units |-> PyList(<<[id |-> "sq1", polygon |-> ring]>>),
                 events |-> PyList(<<[lat |-> lat, lon |-> lon, value |-> v,
                                      time |-> "2020-01-01T00:00:00Z"]>>),
                 params |-> [threshold |-> 4]],
                "polygon_contains_threshold", "call")

\* Family 7: params out of range.  A well-formed unit and event, every rule,
\* and params in which one of the four pricing params or R_km is negative,
\* zero, NaN, infinite or not a number.
RangeUnit == [id |-> "A", lat |-> 0, lon |-> 0, polygon |-> SquarePolygon]
RangeParams ==
    { [Merge(CoreParams(One, One, 8 * One, One \div 4),
             [M0 |-> 4, threshold |-> 4, R_km |-> Km(100)]) EXCEPT ![k] = v] :
        k \in _PRICING_PARAMS \cup {"R_km"},
        v \in {0 - 1, 0, NaN, PosInf, NegInf, NonNumber} }
InitParams ==
    \E ps \in RangeParams, fn \in TriggerFns :
        StartOf([units |-> PyList(<<RangeUnit>>), events |-> PyList(<<NumericEvent>>),
                 params |-> ps], fn, "validate")

\* Family 8: malformed payloads.  Each of the keys units, events and params
\* present or absent; units a list of well-formed units, an empty list, not a
\* list, or a list with a unit that has no id; events an empty list, a list
\* of one event or not a list.
MalformedUnits ==
    { PyList(<<RangeUnit, [id |-> "B", lat |-> 0, lon |-> 90]>>),
      PyList(<<>>),
      NotAList,
      PyList(<<[lat |-> 0, lon |-> 0]>>),
      PyList(<<RangeUnit, [lat |-> 0, lon |-> 90]>>) }
InitMalformed ==
    \E us \in MalformedUnits,
       es \in {PyList(<<>>), PyList(<<NumericEvent>>), NotAList},
       ks \in SUBSET {"units", "events", "params"},
       fn \in TriggerFns :
        StartOf(Restrict([units |-> us, events |-> es,
                          params |-> Merge(CoreParams(One, One, 8 * One, One \div 4),
                                           [M0 |-> 4, threshold |-> 4,
                                            R_km |-> Km(100)])], ks),
                fn, "validate")

\* Family 9: ill-formed events.  One or more events, each the generic or the
\* legacy event or one of them with a required field dropped or a numeric
\* field NaN, infinite or not a number, under every rule.
LegacyEvent ==
    [lat |-> 0, lon |-> 0, magnitude |-> 6, time |-> "2020-01-01T00:00:00Z",
     unit_id |-> "A"]
ShapeEvents ==
    { NumericEvent,
      LegacyEvent,
      Restrict(NumericEvent, {"lat", "lon", "value", "unit_id"}),
      Restrict(NumericEvent, {"lon", "value", "time", "unit_id"}),
      Restrict(NumericEvent, {"lat", "lon", "time", "unit_id"}),
      Restrict(Merge(NumericEvent, LegacyEvent), {"value", "magnitude", "time"}),
      [NumericEvent EXCEPT !.value = NaN],
      [NumericEvent EXCEPT !.lat = PosInf],
      [NumericEvent EXCEPT !.lon = NonNumber],
      Merge(NumericEvent, [magnitude |-> NonNumber]),
      [LegacyEvent EXCEPT !.magnitude = NegInf] }
InitEvents ==
    \E es \in SeqsOf(ShapeEvents, 1, MaxEvents), fn \in TriggerFns :
        StartOf([units |-> PyList(<<RangeUnit>>), events |-> PyList(es),
                 params |-> Merge(CoreParams(One, One, 8 * One, One \div 4),
                                  [M0 |-> 4, threshold |-> 4, R_km |-> Km(100)])],
                fn, "validate")

\* Family 10: names looked up.  The three registered names, the name of the
\* default rule, class names, a registered name in another case, a prefix of
\* one, the empty name and "None".
LookupNames ==
    DOMAIN TRIGGER_REGISTRY
        \cup { "earthquake_trigger", "GeoRadiusThreshold", "geo_radius",
               "GEO_RADIUS_THRESHOLD", "index_timeseries_threshold ", "", "None" }
InitLookup ==
    \E name \in LookupNames : StartOf([name |-> name], "None", "lookup")

\* Family 11: several violations at once.  Units without an id at the first,
\* the second or no index; events that are well-formed or ill-formed at the
\* first or the second index; params in which any of the four pricing params
\* is NaN or negative, R_km is negative, M0 is not a number, and L is present
\* or absent; under the default rule.
SeveralUnits ==
    { <<RangeUnit>>,
      <<[lat |-> 0, lon |-> 0], [lat |-> 0, lon |-> 90]>>,
      <<RangeUnit, [lat |-> 0, lon |-> 90]>> }
SeveralEvents ==
    { <<NumericEvent>>,
      <<[NumericEvent EXCEPT !.lon = NaN, !.value = NonNumber],
        Restrict(NumericEvent, {"lat", "lon", "value"})>>,
      <<NumericEvent, Restrict(NumericEvent, {"lat", "lon", "value"})>> }
SeveralParams ==
    { Restrict([T_years |-> ty, L |-> l, alpha |-> a, T_hist_years |-> th,
                R_km |-> r, M0 |-> m], ks) :
        ty \in {One, NaN, 0 - 1}, l \in {8 * One, NaN, 0 - 1},
        a \in {One \div 4, 0 - 1}, th \in {One, NaN, 0 - 1},
        r \in {Km(100), 0 - 1}, m \in {4, NonNumber},
        ks \in { _PRICING_PARAMS \cup _EARTHQUAKE_EXTRA_PARAMS,
                 (_PRICING_PARAMS \cup _EARTHQUAKE_EXTRA_PARAMS) \ {"L"} } }
InitSeveral ==
    \E us \in SeveralUnits, es \in SeveralEvents, ps \in SeveralParams :
        StartOf([units |-> PyList(us), events |-> PyList(es), params |-> ps],
                "None", "validate")

\* Family 12: opposite points.  A unit at (-82, -90), and one event at the
\* unit or at the opposite point of the globe, (82, 90), with a value above
\* or below the threshold, under the two rules that measure a distance.
AntipodalUnit == [id |-> "A", lat |-> 0 - 82, lon |-> 0 - 90]
AntipodalEvents ==
    { [lat |-> p[1], lon |-> p[2], value |-> v, time |-> "2020-01-01T00:00:00Z"] :
        p \in {<<0 - 82, 0 - 90>>, <<82, 90>>}, v \in {2, 6} }
InitAntipodal ==
    \E e \in AntipodalEvents, fn \in {"None", "geo_radius_threshold"} :
        StartOf([units |-> PyList(<<AntipodalUnit>>), events |-> PyList(<<e>>),
                 params |-> Merge(CoreParams(One, One, 8 * One, One \div 4),
                                  [M0 |-> 4, threshold |-> 4, R_km |-> Km(100)])],
                fn, "validate")

Init == InitStruct \/ InitNumeric \/ InitCall \/ InitBoundary \/ InitIndex
            \/ InitPolygon \/ InitParams \/ InitMalformed \/ InitEvents
            \/ InitLookup \/ InitSeveral \/ InitAntipodal

Spec == Init /\ [][Next]_vars

\* The inputs handed to the workers: one or more of the units of family 1,
\* the first events of a list in which the rules differ, every rule, and
\* params that carry every rule's own parameters.
ConcurrentEvents ==
    << [lat |-> 0, lon |-> 0, value |-> 6, time |-> "2020-01-01T00:00:00Z",
        unit_id |-> "A"],
       [lat |-> 0, lon |-> 90, magnitude |-> 6, value |-> 6,
        time |-> "2021-01-01T00:00:00Z", unit_id |-> "B"],
       [lat |-> 0, lon |-> 0, value |-> 2, time |-> "2020-06-01T00:00:00Z",
        unit_id |-> "A"],
       [lat |-> 60, lon |-> 0, value |-> 6, time |-> "2022-01-01T00:00:00Z",
        unit_id |-> "A"] >>
InitConcurrent ==
    \E us \in SeqsOf(StructUnits \cup {[id |-> "C", lat |-> 0, lon |-> 0,
                                         polygon |-> SquarePolygon]}, 1, MaxUnits),
       n \in 0..Min2(MaxEvents, Len(ConcurrentEvents)),
       fn \in TriggerFns :
        StartOf([units |-> PyList(us),
                 events |-> PyList(SubSeq(ConcurrentEvents, 1, n)),
                 params |-> Merge(CoreParams(One, One, 8 * One, One \div 4),
                                  [M0 |-> 4, threshold |-> 4, R_km |-> Km(100)])],
                fn, "validate")

SpecConcurrent == InitConcurrent /\ [][NextConcurrent]_vars

\* The points measured: whole degrees from pole to pole and over half the
\* circle of longitude, so that pairs coincide, share a meridian or a
\* parallel, lie a quarter of a great circle apart, or are antipodal.
Latitudes == {0 - 90, 0 - 45, 0, 30, 60, 90}
Longitudes == {0 - 90, 0 - 30, 0, 45, 90}
InitHaversine ==
    \E lat1 \in Latitudes, lon1 \in Longitudes,
       lat2 \in Latitudes, lon2 \in Longitudes :
        StartOf([lat1 |-> lat1, lon1 |-> lon1, lat2 |-> lat2, lon2 |-> lon2],
                "None", "measure")

SpecHaversine == InitHaversine /\ [][NextHaversine]_vars

\* The inputs of the default rule: a unit with and a unit without
\* coordinates; events within and beyond the radius, with a value above, at
\* and below M0, one of them in the legacy shape; params with M0 and R_km and
\* with no threshold or a threshold equal to, above or below M0, and params
\* without M0.
DefaultUnits == { [id |-> "A", lat |-> 0, lon |-> 0], [id |-> "B"] }
DefaultEvents ==
    { [lat |-> 0, lon |-> 0, value |-> 6, time |-> "2020-01-01T00:00:00Z"],
      [lat |-> 0, lon |-> 0, value |-> 4, time |-> "2020-02-01T00:00:00Z"],
      [lat |-> 0, lon |-> 0, magnitude |-> 3, time |-> "2020-03-01T00:00:00Z"],
      [lat |-> 0, lon |-> 90, value |-> 6, time |-> "2020-04-01T00:00:00Z"] }
DefaultParams ==
    LET legacy == Merge(CoreParams(One, One, 8 * One, One \div 4),
                        [M0 |-> 4, R_km |-> Km(100)])
    IN  { legacy,
          Merge(legacy, [threshold |-> 4]),
          Merge(legacy, [threshold |-> 7]),
          Merge(legacy, [threshold |-> 2]),
          Merge(CoreParams(One, One, 8 * One, One \div 4),
                [threshold |-> 4, R_km |-> Km(100)]) }
InitDefault ==
    \E us \in SeqsOf(DefaultUnits, 1, MaxUnits),
       es \in SeqsOf(DefaultEvents, 0, MaxEvents),
       ps \in DefaultParams :
        StartOf([units |-> PyList(us), events |-> PyList(es), params |-> ps],
                "None", "validate")

SpecDefault == InitDefault /\ [][NextDefault]_vars

\* The polygons handed to the ray cast: every list of 1..MaxVertices
\* vertices on a grid of two columns and three rows, closed or not, with
\* horizontal, vertical and slanted edges and repeated vertices; and query
\* points on the grid and beside it.
GridVertices == { <<x, y>> : x \in {0, 2}, y \in {0, 1, 2} }
InitRayCast ==
    \E polygon \in SeqsOf(GridVertices, 1, MaxVertices),
       px \in {0 - 1, 0, 1, 2}, py \in {0, 1, 2} :
        StartOf([units |-> PyList(<<[id |-> "P", polygon |-> polygon]>>),
                 events |-> PyList(<<[lat |-> py, lon |-> px, value |-> 6,
                                      time |-> "2020-01-01T00:00:00Z"]>>),
                 params |-> [threshold |-> 4]],
                "polygon_contains_threshold", "call")

NextRayCast == DirectCall

SpecRayCast == InitRayCast /\ [][NextRayCast]_vars

\* The inputs whose events are reordered: a unit with a polygon around
\* (0, 0) and a unit a quarter of the equator away, 0..MaxEvents of three
\* events that differ in place, value, shape and unit_id, every rule, and
\* params that carry every rule's own parameters.
PermutedUnits ==
    { [id |-> "A", lat |-> 0, lon |-> 0, polygon |-> SquarePolygon],
      [id |-> "B", lat |-> 0, lon |-> 90, polygon |-> SquarePolygon] }
InitPermuted ==
    \E us \in SeqsOf(PermutedUnits, 1, MaxUnits),
       es \in SeqsOf(StructEvents, 0, MaxEvents),
       fn \in TriggerFns :
        StartOf([units |-> PyList(us), events |-> PyList(es),
                 params |-> Merge(CoreParams(One, One, 8 * One, One \div 4),
                                  [M0 |-> 4, threshold |-> 4, R_km |-> Km(100)])],
                fn, "validate")

SpecPermuted == InitPermuted /\ [][NextPermuted]_vars

\* ------------------------------------------------------------ get_json
\* lib/fetcher.py: GET with retries.  What one requests.get meets is either
\* an exception of the requests library or a response with a status code and
\* a body that decodes as JSON or does not.
DefaultMaxRetries == 3

\* requests are counted up to this many; get_json itself stops earlier
MaxRequests == 5

StatusCodes == {200, 204, 404, 429, 500, 503}

Response(raised, status_code, decodes) ==
    [raised |-> raised, status_code |-> status_code, decodes |-> decodes]
Met ==
    {Response(TRUE, 0, FALSE)}
        \cup {Response(FALSE, c, TRUE) : c \in StatusCodes}
        \cup {Response(FALSE, 200, FALSE)}

\* r.raise_for_status() raises HTTPError for a client or server error status
RaisesForStatus(status_code) == status_code >= 400 /\ status_code < 600

\* the loop as it would be if attempt never advanced (while True)
SameAttempt(attempt) == attempt

\* for attempt in range(max_retries + 1): the next value of the loop variable
NextAttempt(attempt) == attempt + 1

\* the except clause: the exception leaves get_json on the last attempt and
\* is followed by a sleep and the next attempt otherwise
Caught(exc, attempt, max_retries) ==
    IF attempt = max_retries
    THEN [do |-> "raise", exc |-> exc, wait |-> 0]
    ELSE [do |-> "continue", exc |-> "", wait |-> 2 ^ (attempt + 1)]

\* one pass of the loop body on what the request met.  r.json() on a body
\* that does not decode raises requests' JSONDecodeError, which is a
\* RequestException and so reaches the except clause like any other.
GetJsonPass(attempt, max_retries, met) ==
    IF met.raised THEN Caught("RequestException", attempt, max_retries)
    ELSE IF met.status_code = 200 THEN
        IF met.decodes THEN [do |-> "return", exc |-> "", wait |-> 0]
        ELSE Caught("JSONDecodeError", attempt, max_retries)
    ELSE IF met.status_code = 429 /\ attempt < max_retries THEN
        [do |-> "continue", exc |-> "", wait |-> 2 ^ (attempt + 1)]
    ELSE IF met.status_code \in {500, 502, 503, 504} /\ attempt < max_retries THEN
        [do |-> "continue", exc |-> "", wait |-> 2 ^ (attempt + 1)]
    ELSE IF RaisesForStatus(met.status_code) THEN
        Caught("HTTPError", attempt, max_retries)
    ELSE [do |-> "continue", exc |-> "", wait |-> 0]

\* one pass of the loop: a request, and what get_json does with what it met
Request ==
    /\ pc = "request"
    /\ fetch.attempt <= fetch.max_retries
    /\ Len(fetch.met) < MaxRequests
    /\ \E met \in Met :
         \E r \in {GetJsonPass(fetch.attempt, fetch.max_retries, met)} :
           /\ fetch' = [fetch EXCEPT
                          !.met = Append(@, met),
                          !.slept = @ + r.wait,
                          !.attempt = IF r.do = "continue"
                                      THEN NextAttempt(@) ELSE @]
           /\ pc' = CASE r.do = "return" -> "fetched"
                      [] r.do = "raise" -> "fetch_failed"
                      [] OTHER -> "request"
           /\ outcome' = CASE r.do = "return" -> Returned(<<>>, <<>>)
                           [] r.do = "raise" -> Raised(r.exc, "")
                           [] OTHER -> outcome
    /\ UNCHANGED <<input_json, trigger_fn, supplied, ui, ei, n_trigger,
                   results, calls, run, first, workers>>

\* the loop ran out: raise RuntimeError(f"Max retries exceeded for {url}")
Exhausted ==
    /\ pc = "request"
    /\ fetch.attempt > fetch.max_retries
    /\ pc' = "fetch_failed"
    /\ outcome' = Raised("RuntimeError", "Max retries exceeded")
    /\ UNCHANGED <<input_json, trigger_fn, supplied, ui, ei, n_trigger,
                   results, calls, run, first, workers, fetch>>

NextFetch == Request \/ Exhausted

\* a call of get_json with max_retries from -1 (no request at all) to the
\* default
InitFetch ==
    /\ input_json = <<>>
    /\ supplied = <<>>
    /\ trigger_fn = "None"
    /\ pc = "request"
    /\ ui = 1
    /\ ei = 1
    /\ n_trigger = 0
    /\ results = <<>>
    /\ outcome = Pending
    /\ calls = <<>>
    /\ run = 1
    /\ first = Pending
    /\ workers = <<>>
    /\ \E max_retries \in (0 - 1) .. DefaultMaxRetries :
           fetch = [max_retries |-> max_retries, attempt |-> 0,
                    met |-> <<>>, slept |-> 0]

\* requests.get is given a timeout and time.sleep returns, so a pass that
\* can be taken is taken
SpecFetch == InitFetch /\ [][NextFetch]_vars /\ WF_vars(NextFetch)

\* ----------------------------------------------------------- properties
\* the pcs of a call of compute_premiums (the other two are a rule called
\* directly)
EnginePcs == {"validate", "loop", "returned", "raised"}
TheUnits == input_json.units.items
TheEvents == input_json.events.items
RowFields ==
    {"id", "n_trigger_events", "lambda", "trigger_probability", "expected_loss",
     "premium"}

\* the events on which the active rule answers true for unit i, re-derived
\* from the input
QualifyingEvents(i) ==
    {j \in 1..Len(TheEvents) :
        CallTriggerFn(trigger_fn, TheUnits[i], TheEvents[j], input_json.params).val}

\* C1: on success, every unit's n_trigger_events is the exact number of
\* events of the event list (equal events counted separately) on which the
\* active rule returns true for that unit.
C1_CountIsExact ==
    pc = "returned" =>
        \A i \in 1..Len(TheUnits) :
            /\ i \in DOMAIN outcome.results
            /\ outcome.results[i].n_trigger_events = Cardinality(QualifyingEvents(i))

\* a success on two equal events, both counted for one unit and neither for
\* another
C1_Witness ==
    /\ pc = "returned"
    /\ Len(TheEvents) = 2
    /\ TheEvents[1] = TheEvents[2]
    /\ \E i, k \in DOMAIN outcome.results :
           /\ outcome.results[i].n_trigger_events = 2
           /\ outcome.results[k].n_trigger_events = 0

\* the k-th pair of "for unit in units: for event in events"
PairAt(k) == <<((k - 1) \div Len(TheEvents)) + 1, ((k - 1) % Len(TheEvents)) + 1>>
\* the k-th call of the rule raised
CallRaised(k) ==
    CallTriggerFn(trigger_fn, TheUnits[calls[k][1]], TheEvents[calls[k][2]],
                  input_json.params).exc # ""

\* C2: a run is all-or-nothing.  The rule is called on the pairs in
\* units-outer, events-inner order; a call that raises is the last call and
\* fails the run; a failed run hands the caller no row, whatever rows were
\* computed before; a successful run has evaluated every pair and hands the
\* caller one complete row per unit.
C2_AllOrNothing ==
    pc \in EnginePcs =>
        /\ \A k \in 1..Len(calls) : calls[k] = PairAt(k)
        /\ \A k \in 1..Len(calls) : CallRaised(k) => (k = Len(calls) /\ pc = "raised")
        /\ pc = "raised" => (outcome.status = "raised" /\ outcome.results = <<>>)
        /\ pc \in {"validate", "loop"} => outcome = Pending
        /\ pc = "returned" =>
               /\ outcome.status = "returned"
               /\ Len(calls) = Len(TheUnits) * Len(TheEvents)
               /\ Len(outcome.results) = Len(TheUnits)
               /\ \A i \in DOMAIN outcome.results :
                      DOMAIN outcome.results[i] = RowFields

\* the rule raised on the first event of the second unit: the first unit's
\* row was computed, a later pair was never evaluated, and the caller has no
\* row
C2_Witness ==
    /\ pc = "raised"
    /\ calls # <<>>
    /\ calls[Len(calls)] = <<2, 1>>
    /\ Len(calls) < Len(TheUnits) * Len(TheEvents)
    /\ Len(results) = 1
    /\ outcome.results = <<>>

\* _validate_input accepts the input
Accepted == _validate_input(input_json, trigger_fn = "None").exc = ""

\* C3: validation completes before any pricing work.  The rule has been
\* called or a row exists only if _validate_input accepts the input, and on
\* an input it rejects the call fails, without a call of the rule and
\* without results.
C3_ValidationFirst ==
    pc \in EnginePcs =>
        /\ (calls # <<>> \/ results # <<>> \/ pc \in {"loop", "returned"}) => Accepted
        /\ (~Accepted /\ pc # "validate") =>
               /\ pc = "raised"
               /\ outcome.status = "raised"
               /\ outcome.results = <<>>

\* a rejected input with two well-formed units and an event: the call failed
\* and nothing was evaluated
C3_Witness ==
    /\ pc = "raised"
    /\ run = 1
    /\ ~Accepted
    /\ Len(TheUnits) = 2
    /\ Len(TheEvents) > 0
    /\ calls = <<>>
    /\ results = <<>>

\* C4: on success there is exactly one row per supplied unit and row i
\* carries the id of unit i, also when two units carry the same id.
C4_OneRowPerUnitInOrder ==
    pc = "returned" =>
        /\ Len(outcome.results) = Len(TheUnits)
        /\ \A i \in 1..Len(TheUnits) : outcome.results[i].id = TheUnits[i].id

\* two different units of one id, told apart by their counts
C4_Witness ==
    /\ pc = "returned"
    /\ Len(TheUnits) = 2
    /\ TheUnits[1] # TheUnits[2]
    /\ TheUnits[1].id = TheUnits[2].id
    /\ Len(outcome.results) = 2
    /\ outcome.results[1].n_trigger_events # outcome.results[2].n_trigger_events

\* C5: a row with n_trigger_events = 0, or priced with T_years = 0 or L = 0,
\* has trigger_probability, expected_loss and premium exactly 0 and
\* lambda = n_trigger_events / T_hist_years: 0 when n = 0, positive when
\* n > 0.
C5_ShortCircuitRows ==
    pc = "returned" =>
        \A i \in DOMAIN outcome.results :
            LET r == outcome.results[i]
            IN  (r.n_trigger_events = 0 \/ input_json.params.T_years = 0
                     \/ input_json.params.L = 0) =>
                    /\ r.trigger_probability = 0
                    /\ r.expected_loss = 0
                    /\ r.premium = 0
                    /\ r.lambda = FDivCount(r.n_trigger_events,
                                            input_json.params.T_hist_years)
                    /\ r.n_trigger_events = 0 => r.lambda = 0
                    /\ r.n_trigger_events > 0 => r.lambda > 0

\* a unit with qualifying events priced at zero because T_years or L is 0
C5_Witness ==
    /\ pc = "returned"
    /\ input_json.params.T_years = 0 \/ input_json.params.L = 0
    /\ \E i \in DOMAIN outcome.results :
           /\ outcome.results[i].n_trigger_events > 0
           /\ outcome.results[i].lambda > 0
           /\ outcome.results[i].premium = 0

\* C6: in every row of a success expected_loss = L * trigger_probability and
\* premium = expected_loss * (1 + alpha), in float arithmetic; and when
\* n > 0, T_years > 0 and L > 0, lambda = n / T_hist_years and
\* trigger_probability = 1 - exp(-lambda * T_years).
C6_PricingFormulas ==
    pc = "returned" =>
        \A i \in DOMAIN outcome.results :
            LET r == outcome.results[i]
            IN  /\ r.expected_loss = FMul(input_json.params.L, r.trigger_probability)
                /\ r.premium = FMul(r.expected_loss, FAddOne(input_json.params.alpha))
                /\ (r.n_trigger_events > 0 /\ input_json.params.T_years > 0
                        /\ input_json.params.L > 0) =>
                       /\ r.lambda = FDivCount(r.n_trigger_events,
                                               input_json.params.T_hist_years)
                       /\ r.trigger_probability =
                              FOneMinus(ExpNeg(FMul(r.lambda,
                                                    input_json.params.T_years)))

\* a regular row: a probability strictly between 0 and 1 and a loaded premium
\* above the expected loss
C6_Witness ==
    /\ pc = "returned"
    /\ \E i \in DOMAIN outcome.results :
           /\ outcome.results[i].n_trigger_events > 0
           /\ outcome.results[i].trigger_probability > 0
           /\ outcome.results[i].trigger_probability < One
           /\ outcome.results[i].expected_loss > 0
           /\ outcome.results[i].premium > outcome.results[i].expected_loss
           /\ outcome.results[i].premium < PosInf

ExpRoundsAway(r) ==
    /\ r.n_trigger_events > 0
    /\ input_json.params.T_years > 0
    /\ input_json.params.L > 0
    /\ ExpNeg(FMul(r.lambda, input_json.params.T_years)) * 2^(MantBits + 1) <= One

C8_Deterministic ==
    (run = 2 /\ pc \in {"returned", "raised"}) => outcome = first

\* a second successful call with two rows, one of them with qualifying events
C8_Witness ==
    /\ run = 2
    /\ pc = "returned"
    /\ Len(outcome.results) = 2
    /\ outcome.results[1].n_trigger_events # outcome.results[2].n_trigger_events
    /\ first.status = "returned"

\* C9: units, events and params are as supplied at every point of a call of
\* compute_premiums or of a rule, and on success params_echo is the supplied
\* params.
C9_InputsUnchanged ==
    /\ input_json = supplied
    /\ pc = "returned" => outcome.params_echo = supplied.params

\* a success whose params carry more than the four pricing params, after the
\* rule was called
C9_Witness ==
    /\ pc = "returned"
    /\ calls # <<>>
    /\ {"M0", "R_km"} \subseteq DOMAIN supplied.params
    /\ outcome.params_echo = supplied.params
    /\ input_json = supplied

NoValue(event) == ~Has(event, "value") /\ ~Has(event, "magnitude")
NoThreshold(params) == ~Has(params, "threshold") /\ ~Has(params, "M0")

\* C10: GeoRadiusThreshold and PolygonContainsThreshold raise, and do not
\* return, when the event has neither value nor magnitude or params has
\* neither threshold nor M0, and PolygonContainsThreshold raises when the
\* unit has no polygon, whatever else the unit, the event and params hold.
C10_RulesFailOnAbsentField ==
    pc = "called" =>
        /\ (/\ trigger_fn \in {"geo_radius_threshold", "polygon_contains_threshold"}
            /\ NoValue(TheEvents[1]) \/ NoThreshold(input_json.params))
               => outcome.status = "raised"
        /\ (trigger_fn = "polygon_contains_threshold" /\ ~Has(TheUnits[1], "polygon"))
               => outcome.status = "raised"

\* GeoRadiusThreshold called on an event without value and magnitude, all
\* else present
C10_Witness ==
    /\ pc = "called"
    /\ trigger_fn = "geo_radius_threshold"
    /\ NoValue(TheEvents[1])
    /\ {"lat", "lon"} \subseteq DOMAIN TheEvents[1]
    /\ {"id", "lat", "lon"} \subseteq DOMAIN TheUnits[1]
    /\ {"threshold", "R_km"} \subseteq DOMAIN input_json.params
    /\ outcome.status = "raised"
    /\ outcome.exc = "ValueError"

\* C11 as stated: IndexTimeSeriesThreshold raises, and does not return, on
\* every call in which the event has no value or params has no threshold,
\* whether or not the ids match; so a run under this rule on a non-empty
\* event list with no threshold in params never succeeds.
C11_IndexRuleFailsOnAbsentField ==
    /\ (/\ pc = "called"
        /\ trigger_fn = "index_timeseries_threshold"
        /\ ~Has(TheEvents[1], "value") \/ ~Has(input_json.params, "threshold"))
           => outcome.status = "raised"
    /\ (/\ pc = "returned"
        /\ trigger_fn = "index_timeseries_threshold"
        /\ ~Has(input_json.params, "threshold"))
           => TheEvents = <<>>

\* the event with the number it carries as magnitude carried as value
\* instead
MagnitudeAsValue(event) ==
    [k \in (DOMAIN event \ {"magnitude"}) \cup {"value"} |->
        IF k = "value" THEN event.magnitude ELSE event[k]]

\* what the caller of a rule receives from the call r
Received(r) == IF r.exc # "" THEN Raised(r.exc, r.msg) ELSE Returned(<<>>, <<r.val>>)

\* C12 as stated: under the default trigger and each built-in rule, an event
\* carrying its intensity only as magnitude has the outcome (true, false or
\* the kind of error) of the same event carrying that number as value.
C12_MagnitudeIsAliasOfValue ==
    (/\ pc = "called"
     /\ Has(TheEvents[1], "magnitude")
     /\ ~Has(TheEvents[1], "value"))
        => LET r == Received(CallTriggerFn(trigger_fn, TheUnits[1],
                                           MagnitudeAsValue(TheEvents[1]),
                                           input_json.params))
           IN  /\ outcome.status = r.status
               /\ outcome.exc = r.exc
               /\ outcome.results = r.results

\* the number the geo and polygon rules compare, and what they compare it to
RuleValue(event) == Get(event, "value", Get(event, "magnitude", PyNone))
RuleThreshold(params) == Get(params, "threshold", Get(params, "M0", PyNone))

\* C13: called with every field it reads present, GeoRadiusThreshold returns
\* true if and only if the event's value (or magnitude) is >= threshold (or
\* M0) and the haversine distance from unit to event is <= R_km, both
\* comparisons inclusive.
C13_GeoRadiusInclusive ==
    (/\ pc = "called"
     /\ trigger_fn = "geo_radius_threshold"
     /\ RuleValue(TheEvents[1]) # PyNone
     /\ RuleThreshold(input_json.params) # PyNone
     /\ {"lat", "lon"} \subseteq DOMAIN TheUnits[1]
     /\ {"lat", "lon"} \subseteq DOMAIN TheEvents[1]
     /\ Has(input_json.params, "R_km"))
        => outcome =
               Returned(<<>>,
                        << /\ RuleValue(TheEvents[1]) >= RuleThreshold(input_json.params)
                           /\ haversine_km(TheUnits[1].lat, TheUnits[1].lon,
                                           TheEvents[1].lat, TheEvents[1].lon)
                                  <= input_json.params.R_km >>)

\* a value exactly at the threshold at a positive distance exactly R_km
\* qualifies
C13_Witness ==
    /\ pc = "called"
    /\ trigger_fn = "geo_radius_threshold"
    /\ TheUnits[1] = BoundaryUnit
    /\ TheEvents[1] \in BoundaryEvents
    /\ TheEvents[1].value = input_json.params.threshold
    /\ TheEvents[1].lon # TheUnits[1].lon
    /\ input_json.params.R_km > 0
    /\ haversine_km(TheUnits[1].lat, TheUnits[1].lon,
                    TheEvents[1].lat, TheEvents[1].lon) = input_json.params.R_km
    /\ outcome = Returned(<<>>, <<TRUE>>)

\* the event is addressed to the unit and its value reaches the threshold
IndexQualifies(unit, event, params) ==
    /\ Has(event, "unit_id")
    /\ event.unit_id = unit.id
    /\ event.value >= params.threshold

\* C14: under IndexTimeSeriesThreshold an event counts for a unit if and
\* only if event.unit_id equals unit.id and event.value >= threshold: a call
\* that returns returns exactly that, and every row's count is the number of
\* such events, so events of another id never add to it and the units need
\* no lat/lon.
C14_IndexCountsOwnEvents ==
    trigger_fn = "index_timeseries_threshold" =>
        /\ (pc = "called" /\ outcome.status = "returned") =>
               outcome.results[1]
                   = IndexQualifies(TheUnits[1], TheEvents[1], input_json.params)
        /\ pc = "returned" =>
               \A i \in DOMAIN outcome.results :
                   outcome.results[i].n_trigger_events =
                       Cardinality({j \in 1..Len(TheEvents) :
                           IndexQualifies(TheUnits[i], TheEvents[j], input_json.params)})

\* two regions without coordinates, one event above the threshold for each:
\* each region counts its own event only
C14_Witness ==
    /\ pc = "returned"
    /\ trigger_fn = "index_timeseries_threshold"
    /\ Len(TheUnits) = 2
    /\ DOMAIN TheUnits[1] = {"id"}
    /\ TheUnits[1].id # TheUnits[2].id
    /\ Len(TheEvents) = 2
    /\ TheEvents[1].unit_id # TheEvents[2].unit_id
    /\ \A i \in 1..2 : outcome.results[i].n_trigger_events = 1

\* the point (x, y) lies strictly inside, or strictly outside, the square
\* with corners (+-30, +-30)
StrictlyInsideSquare(x, y) == 0 - 30 < x /\ x < 30 /\ 0 - 30 < y /\ y < 30
StrictlyOutsideSquare(x, y) == x < 0 - 30 \/ x > 30 \/ y < 0 - 30 \/ y > 30

\* C15: called on a unit whose polygon is a closed ring of the square and
\* with the event's value, lon and lat and the threshold present,
\* PolygonContainsThreshold returns; it returns true for every point strictly
\* inside whose value is >= threshold, false for every point strictly
\* outside, and false for every value below the threshold wherever the point
\* lies.
C15_PolygonInsideAndThreshold ==
    (/\ pc = "called"
     /\ trigger_fn = "polygon_contains_threshold"
     /\ Has(TheUnits[1], "polygon")
     /\ TheUnits[1].polygon \in SquareRings
     /\ RuleValue(TheEvents[1]) # PyNone
     /\ RuleThreshold(input_json.params) # PyNone
     /\ {"lat", "lon"} \subseteq DOMAIN TheEvents[1])
        => /\ outcome.status = "returned"
           /\ RuleValue(TheEvents[1]) < RuleThreshold(input_json.params)
                  => outcome.results = <<FALSE>>
           /\ StrictlyOutsideSquare(TheEvents[1].lon, TheEvents[1].lat)
                  => outcome.results = <<FALSE>>
           /\ (/\ StrictlyInsideSquare(TheEvents[1].lon, TheEvents[1].lat)
               /\ RuleValue(TheEvents[1]) >= RuleThreshold(input_json.params))
                  => outcome.results = <<TRUE>>

\* a point strictly inside, off the centre, with the value at the threshold,
\* in a ring that starts with a vertical edge
C15_Witness ==
    /\ pc = "called"
    /\ trigger_fn = "polygon_contains_threshold"
    /\ Has(TheUnits[1], "polygon")
    /\ TheUnits[1].polygon \in SquareRings
    /\ TheUnits[1].polygon[1][1] = TheUnits[1].polygon[2][1]
    /\ {"lat", "lon", "value"} \subseteq DOMAIN TheEvents[1]
    /\ StrictlyInsideSquare(TheEvents[1].lon, TheEvents[1].lat)
    /\ TheEvents[1].lon = 15
    /\ TheEvents[1].lat = 0 - 15
    /\ Has(input_json.params, "threshold")
    /\ TheEvents[1].value = input_json.params.threshold
    /\ outcome.results = <<TRUE>>

\* the input with M0 and R_km added to its params
WithEarthquakeParams ==
    [input_json EXCEPT !.params = Merge([M0 |-> 4, R_km |-> 0], input_json.params)]

\* C16: M0 and R_km are required exactly when no rule is supplied.  With
\* trigger_fn omitted, params lacking M0 or R_km fail the call before any
\* pricing; with a rule supplied, params without M0 and R_km pass validation
\* whenever the input would pass with them, so that such a call fails, if at
\* all, only in a call of the rule.
C16_EarthquakeParamsOnlyByDefault ==
    (/\ pc \in {"loop", "returned", "raised"}
     /\ Has(input_json, "params")
     /\ ~({"M0", "R_km"} \subseteq DOMAIN input_json.params))
        => /\ trigger_fn = "None" =>
                  /\ pc = "raised"
                  /\ outcome.exc = "ValueError"
                  /\ calls = <<>>
                  /\ results = <<>>
           /\ (/\ trigger_fn # "None"
               /\ _validate_input(WithEarthquakeParams, TRUE).exc = ""
               /\ pc = "raised")
                  => calls # <<>>

\* a rule was supplied and params holds the four pricing params and the
\* rule's threshold only: the call succeeded
C16_Witness ==
    /\ pc = "returned"
    /\ trigger_fn = "geo_radius_threshold"
    /\ DOMAIN input_json.params = _PRICING_PARAMS \cup {"threshold"}
    /\ calls # <<>>
    /\ Len(outcome.results) = 2

\* v is an int or float that is neither NaN nor infinite
FiniteNumber(v) == v # NonNumber /\ v # PyNone /\ v # NaN /\ IsFinite(v)

\* the range bounds of the params
ParamsInRange(params) ==
    /\ \A k \in _PRICING_PARAMS : FiniteNumber(params[k])
    /\ params.T_hist_years > 0
    /\ params.T_years >= 0
    /\ params.L >= 0
    /\ params.alpha >= 0
    /\ Has(params, "R_km") => (FiniteNumber(params.R_km) /\ params.R_km >= 0)

\* C17: with the four pricing params present, an input whose params violate
\* a range bound (T_hist_years > 0, T_years >= 0, L >= 0, alpha >= 0, the
\* four of them finite numbers, R_km >= 0 when present) fails with
\* ValueError before any call of the rule, under the default trigger and
\* under every rule; and every input that got past validation satisfies all
\* the bounds.
C17_RangeBounds ==
    (/\ pc \in {"loop", "returned", "raised"}
     /\ Has(input_json, "params")
     /\ _PRICING_PARAMS \subseteq DOMAIN input_json.params)
        => /\ ~ParamsInRange(input_json.params) =>
                  /\ pc = "raised"
                  /\ outcome.exc = "ValueError"
                  /\ calls = <<>>
                  /\ results = <<>>
           /\ (pc \in {"loop", "returned"} \/ calls # <<>>)
                  => ParamsInRange(input_json.params)

\* a negative R_km under a supplied rule: rejected before the rule is called
C17_Witness ==
    /\ pc = "raised"
    /\ trigger_fn = "index_timeseries_threshold"
    /\ Has(input_json, "params")
    /\ Has(input_json.params, "R_km")
    /\ input_json.params.R_km = 0 - 1
    /\ outcome.msg = "R_km must be >= 0"
    /\ calls = <<>>

\* the structural defects of the payload, each as the message that names it
StructuralDefects ==
    (IF ~Has(input_json, "units") THEN {"Missing 'units' key"}
     ELSE IF ~input_json.units.list \/ Len(input_json.units.items) = 0
     THEN {"'units' must be a non-empty list"}
     ELSE {"Unit at index " \o ToString(i - 1) \o " missing 'id'" :
              i \in {j \in 1..Len(TheUnits) : ~Has(TheUnits[j], "id")}})
    \cup (IF ~Has(input_json, "events") THEN {"Missing 'events' key"}
          ELSE IF ~input_json.events.list THEN {"'events' must be a list"}
          ELSE {})
    \cup (IF ~Has(input_json, "params") THEN {"Missing 'params' key"} ELSE {})

\* C18: a payload that lacks one of the keys units, events, params, whose
\* units is not a non-empty list, one of whose units has no id (or whose
\* events is not a list) fails with a ValueError that names one of its
\* defects, before any call of the rule; an empty events list is no defect:
\* with acceptable params the call does not fail, and it returns one row per
\* unit with n_trigger_events = 0.
C18_MalformedPayloadRejected ==
    pc \in {"loop", "returned", "raised"} =>
        /\ StructuralDefects # {} =>
               /\ pc = "raised"
               /\ outcome.exc = "ValueError"
               /\ outcome.msg \in StructuralDefects
               /\ calls = <<>>
               /\ results = <<>>
        /\ (/\ StructuralDefects = {}
            /\ TheEvents = <<>>
            /\ ValidateParams(input_json.params, trigger_fn = "None").exc = "")
               => pc # "raised"
        /\ (pc = "returned" /\ TheEvents = <<>>) =>
               /\ Len(outcome.results) = Len(TheUnits)
               /\ \A i \in DOMAIN outcome.results :
                      outcome.results[i].n_trigger_events = 0

\* a payload with two well-formed units and an empty events list but no
\* params: rejected, naming params
C18_Witness ==
    /\ pc = "raised"
    /\ DOMAIN input_json = {"units", "events"}
    /\ Len(TheUnits) = 2
    /\ input_json.events = PyList(<<>>)
    /\ StructuralDefects = {"Missing 'params' key"}
    /\ outcome.msg = "Missing 'params' key"

\* the event has the generic or the legacy shape and each of lat, lon, value,
\* magnitude it carries is a finite number
EventWellFormed(event) ==
    /\ \/ {"lat", "lon", "value", "time"} \subseteq DOMAIN event
       \/ {"lat", "lon", "magnitude", "time"} \subseteq DOMAIN event
    /\ \A f \in {"lat", "lon", "value", "magnitude"} \cap DOMAIN event :
           FiniteNumber(event[f])

\* C19: when a single event of the list has neither the generic nor the
\* legacy shape, or carries a lat, lon, value or magnitude that is not a
\* finite number, the call fails with ValueError before any call of the
\* rule, whichever rule is active; and every event of an input that got past
\* validation is well formed.
C19_EveryEventWellFormed ==
    (/\ pc \in {"loop", "returned", "raised"}
     /\ Has(input_json, "events")
     /\ input_json.events.list)
        => /\ (\E j \in 1..Len(TheEvents) : ~EventWellFormed(TheEvents[j])) =>
                  /\ pc = "raised"
                  /\ outcome.exc = "ValueError"
                  /\ calls = <<>>
                  /\ results = <<>>
           /\ (pc \in {"loop", "returned"} \/ calls # <<>>) =>
                  \A j \in 1..Len(TheEvents) : EventWellFormed(TheEvents[j])

\* under the index rule, a well-formed event followed by one with an
\* infinite lat: the whole input is rejected
C19_Witness ==
    /\ pc = "raised"
    /\ trigger_fn = "index_timeseries_threshold"
    /\ Has(input_json, "events")
    /\ Len(TheEvents) = 2
    /\ TheEvents[1] = NumericEvent
    /\ TheEvents[2] = [NumericEvent EXCEPT !.lat = PosInf]
    /\ outcome.msg = "events[1].lat must be finite"
    /\ calls = <<>>

\* ---------------------------------------------------------------- C20
\* the three registered names and the class of the rule each one selects
RegisteredRules ==
    [geo_radius_threshold |-> "GeoRadiusThreshold",
     polygon_contains_threshold |-> "PolygonContainsThreshold",
     index_timeseries_threshold |-> "IndexTimeSeriesThreshold"]

\* the texts that list exactly the names in S, in some order
Listings(S) ==
    { ReprList(q) : q \in {p \in [1..Cardinality(S) -> S] :
                               \A i, j \in DOMAIN p : i # j => p[i] # p[j]} }

\* C20: get_trigger resolves exactly the three registered names
\* (geo_radius_threshold, polygon_contains_threshold,
\* index_timeseries_threshold), each to an instance of its own rule and the
\* three to three different instances; a second lookup of a name gives the
\* same instance as the first; every other name fails with an error whose
\* message names the unknown name and lists the three valid names.
C20_RegistryLookup ==
    pc = "looked" =>
        /\ input_json.name \in DOMAIN RegisteredRules =>
               /\ outcome.status = "returned"
               /\ outcome.results[1].class = RegisteredRules[input_json.name]
               /\ \A other \in DOMAIN RegisteredRules \ {input_json.name} :
                      get_trigger(other).val # outcome.results[1]
        /\ input_json.name \notin DOMAIN RegisteredRules =>
               /\ outcome.status = "raised"
               /\ outcome.exc = "KeyError"
               /\ outcome.msg \in
                      { "Unknown trigger rule '" \o input_json.name
                            \o "'. Available: " \o l :
                          l \in Listings(DOMAIN RegisteredRules) }
        /\ run = 2 => outcome = first

\* both cases looked up twice: a registered name that gave the same instance
\* both times, or an unregistered name that failed both times
C20_Witness ==
    /\ pc = "looked"
    /\ run = 2
    /\ \/ /\ input_json.name = "polygon_contains_threshold"
          /\ first.status = "returned"
          /\ outcome.results = first.results
       \/ /\ input_json.name = "earthquake_trigger"
          /\ first.status = "raised"
          /\ outcome.status = "raised"

\* ---------------------------------------------------------------- C21
\* S if c holds, nothing otherwise
When(c, S) == IF c THEN S ELSE {}

\* a value that is not a finite number, and the text that says how
Unfinite(v) == v \in {NonNumber, PyNone, NaN, PosInf, NegInf}
UnfiniteText(v) ==
    IF v \in {NonNumber, PyNone} THEN " must be a number" ELSE " must be finite"

\* The violations of one event at index i (0-based in the texts), each with
\* its place in the pass: the shape, then lat, lon, value, magnitude.
EventViolations(e, i) ==
    When(~(_REQUIRED_EVENT_FIELDS_GENERIC \subseteq DOMAIN e)
             /\ ~(_REQUIRED_EVENT_FIELDS_LEGACY \subseteq DOMAIN e),
         {<<200 + 10 * i, "Event at index " \o ToString(i - 1) \o " must have fields">>})
    \cup { <<200 + 10 * i + j,
            "events[" \o ToString(i - 1) \o "]."
                \o <<"lat", "lon", "value", "magnitude">>[j]
                \o UnfiniteText(e[<<"lat", "lon", "value", "magnitude">>[j]])>> :
            j \in {k \in 1..4 :
                      /\ Has(e, <<"lat", "lon", "value", "magnitude">>[k])
                      /\ Unfinite(e[<<"lat", "lon", "value", "magnitude">>[k]])} }

\* The violations of the params, each with its place in the pass: missing
\* params, the finiteness of T_years, L, alpha, T_hist_years, then the ranges
\* of T_hist_years, T_years, L, alpha, then R_km and M0.
ParamViolations(params, dflt) ==
    LET required == IF dflt THEN _PRICING_PARAMS \cup _EARTHQUAKE_EXTRA_PARAMS
                    ELSE _PRICING_PARAMS
        finite_order == <<"T_years", "L", "alpha", "T_hist_years">>
        Num(k) == Has(params, k) /\ ~Unfinite(params[k])
    IN  When(required \ DOMAIN params # {}, {<<401, "Missing params">>})
        \cup { <<401 + j, "params." \o finite_order[j]
                              \o UnfiniteText(params[finite_order[j]])>> :
                j \in {k \in 1..4 : /\ Has(params, finite_order[k])
                                    /\ Unfinite(params[finite_order[k]])} }
        \cup When(Num("T_hist_years") /\ params.T_hist_years <= 0,
                  {<<406, "T_hist_years must be > 0">>})
        \cup When(Num("T_years") /\ params.T_years < 0,
                  {<<407, "T_years must be >= 0">>})
        \cup When(Num("L") /\ params.L < 0, {<<408, "L must be >= 0">>})
        \cup When(Num("alpha") /\ params.alpha < 0, {<<409, "alpha must be >= 0">>})
        \cup When(Has(params, "R_km") /\ Unfinite(params.R_km),
                  {<<410, "params.R_km" \o UnfiniteText(params.R_km)>>})
        \cup When(Num("R_km") /\ params.R_km < 0, {<<411, "R_km must be >= 0">>})
        \cup When(Has(params, "M0") /\ Unfinite(params.M0),
                  {<<412, "params.M0" \o UnfiniteText(params.M0)>>})

\* every violation of the input, as <<place in the pass, text>>
AllViolations ==
    (IF ~Has(input_json, "units") THEN {<<1, "Missing 'units' key">>}
     ELSE IF ~input_json.units.list \/ Len(input_json.units.items) = 0
     THEN {<<2, "'units' must be a non-empty list">>}
     ELSE { <<2 + i, "Unit at index " \o ToString(i - 1) \o " missing 'id'">> :
              i \in {j \in 1..Len(TheUnits) : ~Has(TheUnits[j], "id")} })
    \cup (IF ~Has(input_json, "events") THEN {<<100, "Missing 'events' key">>}
          ELSE IF ~input_json.events.list THEN {<<101, "'events' must be a list">>}
          ELSE UNION { EventViolations(TheEvents[i], i) : i \in 1..Len(TheEvents) })
    \cup (IF ~Has(input_json, "params") THEN {<<400, "Missing 'params' key">>}
          ELSE ParamViolations(input_json.params, trigger_fn = "None"))

\* C21: a call on an input with one or more violations fails with exactly
\* one of them, the one that comes first in the pass (units key, units list,
\* unit ids in index order; events key, events list, each event in index
\* order; params key, missing params, finiteness of T_years, L, alpha,
\* T_hist_years; ranges of T_hist_years, T_years, L, alpha; R_km; M0), and
\* its message is that violation's text alone; an input without a violation
\* is not rejected.
C21_FirstViolationOnly ==
    pc \in {"loop", "returned", "raised"} =>
        /\ AllViolations # {} =>
               /\ pc = "raised"
               /\ calls = <<>>
               /\ \E v \in AllViolations :
                      /\ \A w \in AllViolations : v[1] <= w[1]
                      /\ outcome = Raised("ValueError", v[2])
        /\ (pc = "raised" /\ calls = <<>>) => AllViolations # {}

\* an input with a violation in each of units, events and params, rejected
\* for the first unit without an id
C21_Witness ==
    /\ pc = "raised"
    /\ Cardinality(AllViolations) >= 6
    /\ \E u, e, p \in AllViolations : u[1] < 100 /\ e[1] \in 200..399 /\ p[1] > 401
    /\ outcome.msg = "Unit at index 0 missing 'id'"

\* ---------------------------------------------------------------- C22
\* the kind of a failure is the class of the exception raised: the kind given
\* to an unknown rule name, and the kind given to a unit without a polygon
\* under the polygon rule
UnknownNameKind == get_trigger("no_such_rule").exc
MissingPolygonKind ==
    PolygonContainsThreshold([id |-> "A"], NumericEvent, [threshold |-> 4]).exc

\* C22 as stated: a failure for an unknown rule name and a failure of a rule
\* for a missing polygon or a missing threshold have one kind, the
\* configuration error, and no failure of the validator (a schema or a range
\* violation) has that kind.
C22_FailuresClassifiedByKind ==
    /\ (pc = "looked" /\ outcome.status = "raised") => outcome.exc = UnknownNameKind
    /\ (/\ pc \in {"called", "raised"}
        /\ outcome.status = "raised"
        /\ calls # <<>>
        /\ outcome.msg \in {"Unit missing 'polygon' field", "params missing 'threshold'"})
           => outcome.exc = UnknownNameKind
    /\ (pc = "raised" /\ calls = <<>>)
           => outcome.exc \notin {UnknownNameKind, MissingPolygonKind}

\* ---------------------------------------------------------------- C23
\* C23: with the units of a returned call evaluated one per worker, the
\* workers interleaved in any order over the same events and params, no
\* worker fails and each worker that is done holds the row the sequential
\* call returned for its unit; the row of a unit is the same at every
\* position of the list and whatever the other units are.
C23_UnitsIndependent ==
    pc = "workers" =>
        /\ DOMAIN workers = DOMAIN outcome.results
        /\ \A i \in DOMAIN workers :
               /\ workers[i].status # "raised"
               /\ workers[i].status = "done" => workers[i].row = outcome.results[i]
        /\ \A i, j \in DOMAIN outcome.results :
               TheUnits[i] = TheUnits[j] => outcome.results[i] = outcome.results[j]

\* two units with different counts, the second worker done while the first
\* is still counting
C23_Witness ==
    /\ pc = "workers"
    /\ Len(TheUnits) >= 2
    /\ Len(TheEvents) >= 2
    /\ workers[1].status = "counting"
    /\ workers[1].ei = 2
    /\ workers[2].status = "done"
    /\ workers[2].row = outcome.results[2]
    /\ outcome.results[2].n_trigger_events > 0
    /\ outcome.results[1].n_trigger_events # outcome.results[2].n_trigger_events

\* ---------------------------------------------------------------- C24
\* C24: haversine_km from a to b and from b to a give the same outcome, and
\* haversine_km of a point to itself returns exactly 0.
C24_HaversineSymmetricZero ==
    pc = "measured" =>
        /\ run = 2 => outcome = first
        /\ (input_json.lat1 = input_json.lat2 /\ input_json.lon1 = input_json.lon2)
               => outcome = Returned(<<>>, <<0>>)

\* two points that differ in latitude and in longitude, measured both ways
\* with a positive distance, and a point measured to itself
C24_Witness ==
    /\ pc = "measured"
    /\ run = 2
    /\ first.status = "returned"
    /\ \/ /\ input_json.lat1 # input_json.lat2
          /\ input_json.lon1 # input_json.lon2
          /\ Abs(input_json.lat1) # Abs(input_json.lat2)
          /\ outcome.results[1] > Km(1000)
       \/ /\ input_json.lat1 = 30
          /\ input_json.lat2 = 30
          /\ input_json.lon1 = 45
          /\ input_json.lon2 = 45
          /\ outcome.results = <<0>>

\* ---------------------------------------------------------------- C25
\* the validator accepts the input in default mode
AcceptedByDefault == _validate_input(input_json, TRUE).exc = ""

\* C25 as stated: on every input accepted in default mode, the call under
\* GeoRadiusThreshold gives the caller what the call with no rule gave, the
\* same rows or the same failure, whatever params carries.
C25_DefaultIsGeoRadius ==
    (/\ run = 2
     /\ pc \in {"returned", "raised"}
     /\ trigger_fn = "geo_radius_threshold"
     /\ AcceptedByDefault)
        => outcome = first

\* C25: on every input accepted in default mode whose params carries no
\* threshold, or a threshold equal to M0, the call under GeoRadiusThreshold
\* gives the caller what the call with no rule gave: the same rows and
\* params_echo, or the same failure.
C25_DefaultIsGeoRadiusOnM0 ==
    (/\ run = 2
     /\ pc \in {"returned", "raised"}
     /\ trigger_fn = "geo_radius_threshold"
     /\ AcceptedByDefault
     /\ Has(input_json.params, "threshold")
            => input_json.params.threshold = input_json.params.M0)
        => outcome = first

\* both calls returned on params that carry a threshold equal to M0, with a
\* unit for which an event at M0 qualified and an event did not
C25_Witness ==
    /\ run = 2
    /\ pc = "returned"
    /\ trigger_fn = "geo_radius_threshold"
    /\ AcceptedByDefault
    /\ Has(input_json.params, "threshold")
    /\ input_json.params.threshold = input_json.params.M0
    /\ Len(TheEvents) >= 2
    /\ Has(TheEvents[1], "value")
    /\ TheEvents[1].value = input_json.params.M0
    /\ outcome.results[1].n_trigger_events = 1
    /\ first = outcome

\* ---------------------------------------------------------------- C26
\* every unit carries a numeric lat and lon
UnitsHaveCoordinates ==
    \A i \in DOMAIN TheUnits :
        /\ {"lat", "lon"} \subseteq DOMAIN TheUnits[i]
        /\ IsFinite(TheUnits[i].lat)
        /\ IsFinite(TheUnits[i].lon)

\* C26 as stated: a call with no rule on an input that _validate_input
\* accepts and whose units all carry a numeric lat and lon does not fail: no
\* call of the rule raises, and the call returns one row for each unit.
C26_ValidationSuffices ==
    (/\ pc \in {"loop", "returned", "raised"}
     /\ trigger_fn = "None"
     /\ Accepted
     /\ UnitsHaveCoordinates)
        => /\ pc # "raised"
           /\ pc = "returned" => Len(outcome.results) = Len(TheUnits)

\* ---------------------------------------------------------------- C27
\* the row is one of the short-circuit branch
ZeroCase(r) ==
    r.n_trigger_events = 0 \/ input_json.params.T_years = 0
        \/ input_json.params.L = 0

\* C27 as stated: in every row of a success lambda >= 0,
\* 0 <= expected_loss <= L and premium >= expected_loss, and premium is 0 if
\* and only if n_trigger_events = 0 or T_years = 0 or L = 0.
C27_PremiumZeroOnlyInZeroCase ==
    pc = "returned" =>
        \A i \in DOMAIN outcome.results :
            LET r == outcome.results[i]
            IN  /\ r.lambda >= 0
                /\ 0 <= r.expected_loss
                /\ r.expected_loss <= input_json.params.L
                /\ r.premium >= r.expected_loss
                /\ r.premium = 0 <=> ZeroCase(r)

\* C27, amended: in every row of a success lambda >= 0,
\* 0 <= expected_loss <= L and premium >= expected_loss >= 0; premium is 0 if
\* and only if expected_loss is 0; and expected_loss is 0 if and only if
\* n_trigger_events = 0 or T_years = 0 or L = 0, or the float
\* 1.0 - exp(-lambda * T_years) is 0.0, or the float product of L and
\* trigger_probability is 0.0.
C27_OrderedAndBounded ==
    pc = "returned" =>
        \A i \in DOMAIN outcome.results :
            LET r == outcome.results[i]
            IN  /\ r.lambda >= 0
                /\ 0 <= r.expected_loss
                /\ r.expected_loss <= input_json.params.L
                /\ r.premium >= r.expected_loss
                /\ ZeroCase(r) => r.premium = 0
                /\ r.premium = 0 <=> r.expected_loss = 0
                /\ r.expected_loss = 0
                       <=> \/ ZeroCase(r)
                           \/ FOneMinus(ExpNeg(FMul(r.lambda,
                                                    input_json.params.T_years))) = 0
                           \/ FMul(input_json.params.L, r.trigger_probability) = 0

\* a row with qualifying events, T_years > 0 and L > 0 in which the premium
\* lies strictly between the expected loss and infinity, and the expected
\* loss strictly between 0 and L
C27_Witness ==
    /\ pc = "returned"
    /\ \E i \in DOMAIN outcome.results :
           /\ ~ZeroCase(outcome.results[i])
           /\ 0 < outcome.results[i].expected_loss
           /\ outcome.results[i].expected_loss < input_json.params.L
           /\ outcome.results[i].expected_loss < outcome.results[i].premium
           /\ outcome.results[i].premium < PosInf
           /\ outcome.results[i].lambda > 0

\* ---------------------------------------------------------------- C28
\* the edges of the polygon of the unit, as <<x1, y1, x2, y2>>
EdgesOf(polygon) ==
    { <<polygon[i - 1][1], polygon[i - 1][2], polygon[i][1], polygon[i][2]>> :
        i \in 2..Len(polygon) }

\* the edge is one for which the ray cast from (px, py) computes the quotient
Interpolated(py, edge) ==
    /\ Min2(edge[2], edge[4]) < py
    /\ py <= Max2(edge[2], edge[4])
    /\ edge[1] # edge[3]

\* C28: _point_in_polygon on a polygon of one or more vertices and any query
\* point returns and never raises ZeroDivisionError: every edge for which
\* (py - y1) * (x2 - x1) / (y2 - y1) is computed has y1 # y2, and horizontal
\* and repeated-vertex edges are passed over.
C28_NoDivisionByZero ==
    (pc = "called" /\ trigger_fn = "polygon_contains_threshold"
        /\ Has(TheUnits[1], "polygon") /\ Len(TheUnits[1].polygon) >= 1
        /\ DOMAIN TheEvents[1] = {"lat", "lon", "value", "time"}
        /\ Has(input_json.params, "threshold")
        /\ TheEvents[1].value >= input_json.params.threshold)
        => /\ outcome.status = "returned"
           /\ outcome.exc # "ZeroDivisionError"
           /\ \A edge \in EdgesOf(TheUnits[1].polygon) :
                  Interpolated(TheEvents[1].lat, edge) => edge[2] # edge[4]

\* a polygon with a horizontal edge at the height of the point, a repeated
\* vertex and a slanted edge whose quotient was computed; the call returned
C28_Witness ==
    /\ pc = "called"
    /\ trigger_fn = "polygon_contains_threshold"
    /\ Has(TheUnits[1], "polygon")
    /\ DOMAIN TheEvents[1] = {"lat", "lon", "value", "time"}
    /\ outcome.status = "returned"
    /\ \E e, f, g \in EdgesOf(TheUnits[1].polygon) :
           /\ e[2] = e[4] /\ e[1] # e[3] /\ e[2] = TheEvents[1].lat
           /\ f[1] = f[3] /\ f[2] = f[4]
           /\ Interpolated(TheEvents[1].lat, g)

\* ---------------------------------------------------------------- C29
\* C29: when the call on a list of events returned and the call on the same
\* events in another order returns too, both give the same rows: for every
\* unit the same n_trigger_events, lambda, trigger_probability,
\* expected_loss and premium.
C29_EventOrderIrrelevant ==
    (run = 2 /\ pc = "returned" /\ first.status = "returned") =>
        /\ Len(outcome.results) = Len(first.results)
        /\ \A i \in DOMAIN outcome.results :
               \A f \in RowFields : outcome.results[i][f] = first.results[i][f]

\* two units and two events in the other order than first supplied, one of
\* which qualifies for the first unit only
C29_Witness ==
    /\ run = 2
    /\ pc = "returned"
    /\ first.status = "returned"
    /\ Len(TheUnits) = 2
    /\ Len(TheEvents) = 2
    /\ TheEvents # supplied.events.items
    /\ outcome.results[1].n_trigger_events = 1
    /\ outcome.results[2].n_trigger_events = 0
    /\ outcome.results = first.results

\* ---------------------------------------------------------------- C30
FetchDone == pc \in {"fetched", "fetch_failed"}
LastMet == fetch.met[Len(fetch.met)]
C30_Bounded ==
    /\ Len(fetch.met) <= Max2(fetch.max_retries + 1, 0)
    /\ pc = "fetched" =>
           /\ outcome.status = "returned"
           /\ Len(fetch.met) >= 1
           /\ ~LastMet.raised
           /\ LastMet.status_code = 200
    /\ pc = "fetch_failed" =>
           /\ outcome.status = "raised"
           /\ outcome.exc \in {"RequestException", "JSONDecodeError",
                               "HTTPError", "RuntimeError"}
           /\ outcome.exc = "RequestException" =>
                  (Len(fetch.met) >= 1 /\ LastMet.raised)
           /\ outcome.exc = "HTTPError" =>
                  (Len(fetch.met) >= 1 /\ RaisesForStatus(LastMet.status_code))
           /\ outcome.exc = "JSONDecodeError" =>
                  (Len(fetch.met) >= 1 /\ LastMet.status_code = 200
                      /\ ~LastMet.decodes)

\* C30: get_json terminates on every sequence of responses and request
\* exceptions: it issues at most max_retries + 1 requests, returns only
\* when the last response had status 200, and otherwise ends raising the
\* last request exception, an HTTP status error or the RuntimeError of the
\* exhausted loop.
C30_GetJsonTerminates == []C30_Bounded /\ <>FetchDone

\* every one of max_retries + 1 = 4 requests was spent, on a 429, a 503, a
\* request exception and a 404, and the 404 left get_json as an HTTPError
\* after 2 + 4 + 8 seconds of sleep
C30_Witness ==
    /\ pc = "fetch_failed"
    /\ fetch.max_retries = DefaultMaxRetries
    /\ Len(fetch.met) = DefaultMaxRetries + 1
    /\ fetch.met[1].status_code = 429
    /\ fetch.met[2].status_code = 503
    /\ fetch.met[3].raised
    /\ fetch.met[4].status_code = 404
    /\ outcome.exc = "HTTPError"
    /\ fetch.slept = 14

====
